---------------------------- MODULE Spec2Model ----------------------------
(***************************************************************************)
(* Model of the recipe aggregation core of the meal-planning application:  *)
(* the normalizer, the cost enricher, the local cache store, the detail    *)
(* resolver, the search handler and the grocery list builder of            *)
(* src/src/services/recipeService.js, with the repository functions of     *)
(* src/unnamed/part_001.                                                   *)
(*                                                                         *)
(* Numbers.  A JavaScript value whose type matters is a record [t, v]:     *)
(* t is the kind of value, v its payload.  Numbers are fixed-point: the JS *)
(* number x is held as the integer x * Scale, so that the division by 100  *)
(* and the rounding of toFixed(2) are computed, not assumed.  Inputs have  *)
(* at most two decimals and are chosen off the rounding ties of toFixed.   *)
(*                                                                         *)
(* Strings.  An ingredient name is a sequence of one-character strings, so *)
(* that trim() and toLowerCase() are computed.                             *)
(***************************************************************************)
EXTENDS Integers, Sequences, FiniteSets, TLC

VARIABLES
    cache,      \* the recipes table: external id -> row, or NoRow
    op,         \* per request: the exposed operation it runs, or "idle"
    pc,         \* per request: where the operation is suspended
    ids,        \* per request: recipeIds of getDetailedRecipes
    map,        \* per request: cachedRecipes, id -> recipe object
    fetch,      \* per request: the fetchRecipeFromApi branches of Promise.all
    enrich,     \* per request: the ensureRecipeHasCostData branches of Promise.all
    out,        \* per request: what the operation returned or raised
    stat,       \* per request: the calls it issued to the collaborators
    req,        \* per request: what the operation was asked, and the store held then
    nArg,       \* SpecNorm: the argument handed to normalizeApiRecipe
    nPc,        \* SpecNorm: "start", "once", "twice"
    nOnce,      \* SpecNorm: normalizeApiRecipe(nArg)
    nTwice,     \* SpecNorm: normalizeApiRecipe(nOnce)
    gArg,       \* SpecGrocery: the argument handed to buildGroceryList
    gPc,        \* SpecGrocery: "start", "built"
    gOut,       \* SpecGrocery: buildGroceryList(gArg)
    sArg,       \* SpecSort: the arguments handed to sortRecipesByPreferences
    sMem,       \* SpecSort: the arrays recipes (the caller's) and sorted (the copy)
    sOut,       \* SpecSort: the array sortRecipesByPreferences returned
    users,      \* SpecRegister: the users table, a set of rows
    rPc,        \* SpecRegister: where POST /register is suspended
    rReq,       \* SpecRegister: the request body, the table and the store's answers
    rOut,       \* SpecRegister: the response
    fArg,       \* SpecFilter: the recipes and the filters handed to filter
    fPc,        \* SpecFilter: "start", "once", "twice"
    fOnce,      \* SpecFilter: filter(recipes, filters)
    fTwice,     \* SpecFilter: filter(fOnce, filters)
    eArg,       \* SpecCost: the recipe and the price breakdown of the collaborator
    ePc,        \* SpecCost: where the calls of the cost enricher are suspended
    eRec,       \* SpecCost: the recipe object the calls are handed and mutate
    eLog        \* SpecCost: per call, what it issued and what it returned

coreVars == <<cache, op, pc, ids, map, fetch, enrich, out, stat, req>>
normVars == <<nArg, nPc, nOnce, nTwice>>
groceryVars == <<gArg, gPc, gOut>>
sortVars == <<sArg, sMem, sOut>>
registerVars == <<users, rPc, rReq, rOut>>
filterVars == <<fArg, fPc, fOnce, fTwice>>
costVars == <<eArg, ePc, eRec, eLog>>
vars ==
    <<cache, op, pc, ids, map, fetch, enrich, out, stat, req, nArg, nPc, nOnce, nTwice,
      gArg, gPc, gOut, sArg, sMem, sOut, users, rPc, rReq, rOut, fArg, fPc, fOnce, fTwice,
      eArg, ePc, eRec, eLog>>

---------------------------------------------------------------------------
(* JavaScript values *)

Undefined == [t |-> "undefined", v |-> 0]
JsNull == [t |-> "null", v |-> 0]
NaN == [t |-> "nan", v |-> 0]
Num(n) == [t |-> "number", v |-> n]
\* a string that Number() parses to n, and a string it does not parse
NumStr(n) == [t |-> "numstr", v |-> n]
BadStr == [t |-> "badstr", v |-> 0]

\* typeof x === 'number' && !Number.isNaN(x)
IsNumeric(x) == x.t = "number"

\* Number(x)
ToNumber(x) ==
    CASE x.t = "number" -> x
      [] x.t = "numstr" -> Num(x.v)
      [] x.t = "null" -> Num(0)
      [] OTHER -> NaN

\* x || d for a field that holds a number, null, undefined or NaN
NumOr(x, d) == IF x.t = "number" /\ x.v # 0 THEN x ELSE d

\* the fixed-point scale: the JS number x is the integer x * Scale
Scale == 100 * 100
Cent == Scale \div 100

\* the number units.hundredths (Dec(163, 54) is 163.54)
Dec(units, hundredths) == units * Scale + hundredths * Cent

\* the integer nearest to a / b for b > 0, halves away from zero
RoundDiv(a, b) ==
    IF a >= 0 THEN (2 * a + b) \div (2 * b) ELSE 0 - ((2 * (0 - a) + b) \div (2 * b))

\* Number((a / d).toFixed(2)): the quotient rounded to two decimals
ToFixed2Div(a, d) == RoundDiv(a, d * Cent) * Cent

\* Number(a.toFixed(2))
ToFixed2(a) == ToFixed2Div(a, 1)

\* the external API reports prices in minor units: numericPrice / 100
MinorUnitsPerMajor == 100

---------------------------------------------------------------------------
(* Strings as sequences of characters *)

Space == " "

LowerChar(ch) ==
    CASE ch = "A" -> "a"
      [] ch = "B" -> "b"
      [] ch = "I" -> "i"
      [] ch = "L" -> "l"
      [] ch = "N" -> "n"
      [] ch = "O" -> "o"
      [] ch = "S" -> "s"
      [] ch = "T" -> "t"
      [] OTHER -> ch

\* String.prototype.toLowerCase
ToLowerCase(s) == [i \in 1..Len(s) |-> LowerChar(s[i])]

RECURSIVE TrimStart(_)
TrimStart(s) ==
    IF s # <<>> /\ Head(s) = Space THEN TrimStart(Tail(s)) ELSE s

RECURSIVE TrimEnd(_)
TrimEnd(s) ==
    IF s # <<>> /\ s[Len(s)] = Space THEN TrimEnd(SubSeq(s, 1, Len(s) - 1)) ELSE s

\* String.prototype.trim
Trim(s) == TrimEnd(TrimStart(s))

\* a || b on strings: the empty string is falsy
StrOr(a, b) == IF a # <<>> THEN a ELSE b

---------------------------------------------------------------------------
(* Recipes *)

NoIngredients == [t |-> "undefined", items |-> <<>>]
Ingredients(items) == [t |-> "array", items |-> items]

\* "no recipe": the null a function returns in place of a recipe
NoRecipe == [t |-> "null"]

\* a response without data, a recipe without priceBreakdown
NoData == [t |-> "null"]

\* the object literal {} : every field undefined (an id of 0 is no id)
EmptyObject ==
    [t |-> "object", id |-> 0, spoonacular_id |-> 0, title |-> "",
     pricePerServing |-> Undefined, readyInMinutes |-> Undefined,
     healthScore |-> Undefined, aggregateLikes |-> Undefined, calories |-> Undefined,
     extendedIngredients |-> NoIngredients, totalIngredientCost |-> Undefined,
     totalCostPerServing |-> Undefined, priceBreakdown |-> NoData]

\* !x for the argument of normalizeApiRecipe: null, 0, '', false and undefined
Falsy(x) == x.t \in {"undefined", "null"} \/ (x.t \in {"number", "string", "boolean"} /\ x.v = 0)

\* a || b on ids
IdOr(a, b) == IF a # 0 THEN a ELSE b

NormalizedPrice(price) ==
    IF price.t \notin {"undefined", "null"}
    THEN LET numericPrice == ToNumber(price)
         IN  IF numericPrice.t # "nan"
             THEN Num(ToFixed2Div(numericPrice.v, MinorUnitsPerMajor))
             ELSE JsNull
    ELSE JsNull

\* mutant: the typeof test is missing, a truthy primitive is spread like {}
normalizeApiRecipe_NoTypeTest(arg) ==
    LET recipeData ==
            IF arg.t = "undefined" \/ (arg.t \in {"number", "string", "boolean"} /\ ~Falsy(arg))
            THEN EmptyObject ELSE arg
    IN  IF Falsy(recipeData)
        THEN NoRecipe
        ELSE [recipeData EXCEPT
                 !.id = IdOr(recipeData.id, recipeData.spoonacular_id),
                 !.pricePerServing = NormalizedPrice(recipeData.pricePerServing)]

normalizeApiRecipe(arg) ==
    LET recipeData == IF arg.t = "undefined" THEN EmptyObject ELSE arg
    IN  IF Falsy(recipeData) \/ recipeData.t # "object"
        THEN NoRecipe
        ELSE [recipeData EXCEPT
                 !.id = IdOr(recipeData.id, recipeData.spoonacular_id),
                 !.pricePerServing = NormalizedPrice(recipeData.pricePerServing)]

---------------------------------------------------------------------------
(* Cost enricher *)

\* mutant: every() in place of some()
recipeHasIngredientCost_Every(recipe) ==
    IF recipe = NoRecipe \/ recipe.extendedIngredients.t # "array"
    THEN FALSE
    ELSE \A i \in 1..Len(recipe.extendedIngredients.items) :
            IsNumeric(recipe.extendedIngredients.items[i].estimatedCost)

recipeHasIngredientCost(recipe) ==
    IF recipe = NoRecipe \/ recipe.extendedIngredients.t # "array"
    THEN FALSE
    ELSE \E i \in 1..Len(recipe.extendedIngredients.items) :
            IsNumeric(recipe.extendedIngredients.items[i].estimatedCost)

\* (name || '').trim().toLowerCase()
KeyOf(name) == ToLowerCase(Trim(name))

\* the Map built from priceData.ingredients: a later item replaces an earlier
\* one with the same key; an item with an empty key or a NaN price is left out
RECURSIVE PriceMapOf(_)
PriceMapOf(items) ==
    IF items = <<>>
    THEN [k \in {} |-> 0]
    ELSE LET before == PriceMapOf(SubSeq(items, 1, Len(items) - 1))
             item == items[Len(items)]
             key == KeyOf(item.name)
             numericPrice == ToNumber(item.price)
         IN  IF key = <<>> \/ numericPrice.t = "nan"
             THEN before
             ELSE [k \in DOMAIN before \cup {key} |->
                      IF k = key THEN numericPrice.v ELSE before[k]]

\* the key an ingredient is looked up by
IngredientKey(ingredient) == KeyOf(StrOr(ingredient.name, ingredient.original))

applyPriceBreakdownToRecipe(recipe, priceData) ==
    IF recipe = NoRecipe \/ priceData = NoData
    THEN recipe
    ELSE LET priceMap == PriceMapOf(priceData.ingredients.items)
             withCosts ==
                 IF recipe.extendedIngredients.t = "array" /\ priceData.ingredients.t = "array"
                 THEN Ingredients(
                        [i \in 1..Len(recipe.extendedIngredients.items) |->
                            LET ingredient == recipe.extendedIngredients.items[i]
                                key == IngredientKey(ingredient)
                            IN  IF key \in DOMAIN priceMap
                                THEN [ingredient EXCEPT !.estimatedCost = Num(priceMap[key])]
                                ELSE ingredient])
                 ELSE recipe.extendedIngredients
         IN  [recipe EXCEPT
                 !.extendedIngredients = withCosts,
                 !.totalIngredientCost =
                     IF priceData.totalCost.t \in {"number", "nan"}
                     THEN priceData.totalCost ELSE @,
                 !.totalCostPerServing =
                     IF priceData.totalCostPerServing.t \in {"number", "nan"}
                     THEN priceData.totalCostPerServing ELSE @,
                 !.priceBreakdown = priceData]

---------------------------------------------------------------------------
(* Local cache store *)

Ids == {1, 2}

NoRow == [t |-> "none"]
NoPayload == [t |-> "none"]

\* JSON.stringify followed by the store's parse of the jsonb column: NaN
\* becomes null, an undefined field is dropped (and reads back as undefined)
JsonValue(x) == IF x.t = "nan" THEN JsNull ELSE x

JsonRoundTrip(recipe) ==
    [recipe EXCEPT
        !.pricePerServing = JsonValue(@),
        !.totalIngredientCost = JsonValue(@),
        !.totalCostPerServing = JsonValue(@),
        !.extendedIngredients =
            IF @.t = "array"
            THEN Ingredients([i \in 1..Len(@.items) |->
                     [@.items[i] EXCEPT !.estimatedCost = JsonValue(@)]])
            ELSE @]

\* saveRecipeToDatabase returns null, and writes nothing, for these
SaveSkipped(recipe) == recipe = NoRecipe \/ recipe.id = 0

\* the payload saveRecipeToDatabase hands to upsertRecipe
SavePayload(recipe) ==
    [t |-> "payload",
     spoonacularId |-> recipe.id,
     pricePerServing |-> IF recipe.pricePerServing.t \in {"number", "nan"}
                         THEN recipe.pricePerServing ELSE JsNull,
     rawData |-> JsonRoundTrip(recipe)]

RowCount(rows) == Cardinality({i \in Ids : rows[i] # NoRow})

\* mutant: the table is replaced by the row that is written
upsertRecipe_Replace(rows, payload) ==
    [i \in Ids |->
        IF i = payload.spoonacularId
        THEN [t |-> "row", spoonacular_id |-> i, recipe_id |-> 1,
              price_per_serving |-> payload.pricePerServing, raw_data |-> payload.rawData]
        ELSE NoRow]

\* INSERT ... ON CONFLICT (spoonacular_id) DO UPDATE: recipe_id is kept on update
upsertRecipe(rows, payload) ==
    [rows EXCEPT ![payload.spoonacularId] =
        [t |-> "row",
         spoonacular_id |-> payload.spoonacularId,
         recipe_id |-> IF @ = NoRow THEN RowCount(rows) + 1 ELSE @.recipe_id,
         price_per_serving |-> payload.pricePerServing,
         raw_data |-> payload.rawData]]

\* mutant: the SELECT finds no row
findRawRecipesBySpoonacularIds_None(rows, idList) == {}

\* SELECT ... WHERE spoonacular_id IN (ids): the set of the rows found
findRawRecipesBySpoonacularIds(rows, idList) ==
    {rows[i] : i \in {j \in Ids : rows[j] # NoRow /\ \E k \in 1..Len(idList) : idList[k] = j}}

\* mutant: the SELECT finds no row
getRecipeRecordId_Blind(rows, id) == NoRow

\* SELECT recipe_id ... WHERE spoonacular_id = id: the row, or NoRow
getRecipeRecordId(rows, id) == IF id \in Ids THEN rows[id] ELSE NoRow

NoMap == [i \in Ids |-> NoRecipe]

\* mutant: a cache hit is normalized again
CachedMapOf_Renormalized(rows) ==
    [i \in Ids |->
        IF \E r \in rows : r.spoonacular_id = i /\ r.raw_data # NoRecipe
        THEN LET r == CHOOSE r \in rows : r.spoonacular_id = i
             IN  normalizeApiRecipe(
                     [r.raw_data EXCEPT !.id = IdOr(r.raw_data.id, r.spoonacular_id)])
        ELSE NoRecipe]

\* rows.reduce(...) of getCachedRecipesMap
CachedMapOf(rows) ==
    [i \in Ids |->
        IF \E r \in rows : r.spoonacular_id = i /\ r.raw_data # NoRecipe
        THEN LET r == CHOOSE r \in rows : r.spoonacular_id = i
             IN  [r.raw_data EXCEPT !.id = IdOr(r.raw_data.id, r.spoonacular_id)]
        ELSE NoRecipe]

---------------------------------------------------------------------------
(* The external recipe API, by its contract: what a call may answer *)

\* an ingredient of the API: no amount, no aisle (the empty string), no cost
Ingredient(name, original) ==
    [name |-> name, original |-> original, amount |-> Undefined, aisle |-> <<>>,
     estimatedCost |-> Undefined]

\* getRecipeInformation(id).data: the raw recipe of that id, prices in minor units
RawRecipe(id) ==
    IF id = 1
    THEN [EmptyObject EXCEPT
             !.id = 1,
             !.title = "one",
             !.pricePerServing = Num(Dec(163, 54)),
             !.readyInMinutes = Num(Dec(45, 0)),
             !.healthScore = Num(Dec(10, 0)),
             !.calories = Num(Dec(500, 0)),
             !.extendedIngredients =
                 Ingredients(<<Ingredient(<<"O", "n">>, <<"x">>),
                               Ingredient(<<>>, <<"S", " ">>),
                               Ingredient(<<"n">>, <<>>)>>)]
    ELSE [EmptyObject EXCEPT
             !.id = id,
             !.title = "two",
             !.pricePerServing = JsNull,
             !.readyInMinutes = Num(Dec(20, 0)),
             !.aggregateLikes = Num(Dec(7, 0)),
             !.extendedIngredients = Ingredients(<<Ingredient(<<"T">>, <<"s">>)>>)]

InfoResponses(id) ==
    {[kind |-> "fail", data |-> NoData], [kind |-> "ok", data |-> RawRecipe(id)]}

PricedItem(name, price) == [name |-> name, price |-> price]

\* getRecipePriceBreakdown(id).data: it prices "on" (twice) and "s", has an
\* item without a name and one without a numeric price, and no cost per serving
Breakdown ==
    [t |-> "object",
     ingredients |->
         Ingredients(<<PricedItem(<<" ", "O", "N">>, Num(Dec(99, 0))),
                       PricedItem(<<" ", "O", "n">>, Num(Dec(12, 40))),
                       PricedItem(<<"s">>, NumStr(Dec(3, 0))),
                       PricedItem(<<" ">>, Num(Dec(1, 0))),
                       PricedItem(<<"n">>, BadStr)>>),
     totalCost |-> Num(Dec(15, 40)),
     totalCostPerServing |-> Undefined]

PriceResponses ==
    {[kind |-> "fail", data |-> NoData], [kind |-> "ok", data |-> NoData],
     [kind |-> "ok", data |-> Breakdown]}

---------------------------------------------------------------------------
(* Grocery list builder *)

\* the UTF-16 code unit of the characters that occur in aisles
CharCode(ch) ==
    CASE ch = "B" -> 66
      [] ch = "P" -> 80
      [] ch = "U" -> 85
      [] ch = "b" -> 98
      [] ch = "k" -> 107
      [] ch = "n" -> 110
      [] ch = "o" -> 111
      [] ch = "w" -> 119
      [] OTHER -> 0

\* a < b on strings: by code units, a proper prefix is smaller
RECURSIVE StrLess(_, _)
StrLess(a, b) ==
    IF b = <<>> THEN FALSE
    ELSE IF a = <<>> THEN TRUE
    ELSE IF CharCode(Head(a)) # CharCode(Head(b)) THEN CharCode(Head(a)) < CharCode(Head(b))
    ELSE StrLess(Tail(a), Tail(b))

Unknown == <<"U", "n", "k", "n", "o", "w", "n">>

\* (ingredient.name || ingredient.original || '').trim()
ResolvedName(ingredient) == Trim(StrOr(ingredient.name, ingredient.original))

\* mutant: the key keeps the case of the resolved name
GroceryKey_CaseSensitive(resolvedName) == resolvedName

\* const key = resolvedName.toLowerCase()
GroceryKey(resolvedName) == ToLowerCase(resolvedName)

\* mutant: the cost is left in minor units
GroceryCost_MinorUnits(ingredient) == NumOr(ingredient.estimatedCost, Num(0)).v

\* ((ingredient.estimatedCost?.value) || 0) / 100
GroceryCost(ingredient) == NumOr(ingredient.estimatedCost, Num(0)).v \div 100

NoGroceries == [entries |-> <<>>, total |-> 0]

\* the body of the inner forEach: acc.entries are the values of ingredientMap
\* in insertion order, each with its Map key; estimatedCost holds the number
\* that the toFixed(2) string reads as
AddIngredient(acc, ingredient, title) ==
    LET resolvedName == ResolvedName(ingredient)
        key == GroceryKey(resolvedName)
        cost == GroceryCost(ingredient)
        amount == NumOr(ingredient.amount, Num(0)).v
        at == {k \in 1..Len(acc.entries) : acc.entries[k].key = key}
    IN  IF resolvedName = <<>>
        THEN acc
        ELSE IF at # {}
        THEN LET k == CHOOSE k \in at : TRUE
                 existing == acc.entries[k]
             IN  [entries |->
                      [acc.entries EXCEPT ![k] =
                          [existing EXCEPT
                              !.amount = @ + amount,
                              !.recipes = Append(@, title),
                              !.estimatedCost =
                                  IF cost > 0 THEN ToFixed2(@ + cost) ELSE @]],
                  total |-> acc.total + cost]
        ELSE [entries |->
                  Append(acc.entries,
                         [key |-> key,
                          name |-> StrOr(ingredient.name, resolvedName),
                          original |-> ingredient.original,
                          amount |-> amount,
                          aisle |-> StrOr(ingredient.aisle, Unknown),
                          estimatedCost |-> ToFixed2(cost),
                          recipes |-> <<title>>]),
              total |-> acc.total + cost]

RECURSIVE AddIngredients(_, _, _)
AddIngredients(acc, ingredients, title) ==
    IF ingredients = <<>>
    THEN acc
    ELSE AddIngredients(AddIngredient(acc, Head(ingredients), title), Tail(ingredients), title)

\* the outer forEach: a null recipe or one without extendedIngredients is passed over
RECURSIVE AddRecipes(_, _)
AddRecipes(acc, recipes) ==
    IF recipes = <<>>
    THEN acc
    ELSE LET recipe == Head(recipes)
         IN  AddRecipes(
                 IF recipe = NoRecipe \/ recipe.extendedIngredients.t # "array"
                 THEN acc
                 ELSE AddIngredients(acc, recipe.extendedIngredients.items, recipe.title),
                 Tail(recipes))

\* the comparator of groceryList.sort
AisleComparison(a, b) ==
    IF StrLess(a.aisle, b.aisle) THEN -1 ELSE IF StrLess(b.aisle, a.aisle) THEN 1 ELSE 0

\* mutant: an entry is placed before the entries of its own aisle
RECURSIVE InsertByAisle_Unstable(_, _)
InsertByAisle_Unstable(sorted, x) ==
    IF sorted = <<>>
    THEN <<x>>
    ELSE IF AisleComparison(sorted[Len(sorted)], x) >= 0
         THEN InsertByAisle_Unstable(SubSeq(sorted, 1, Len(sorted) - 1), x)
                  \o <<sorted[Len(sorted)]>>
         ELSE sorted \o <<x>>

\* Array.prototype.sort is stable: x goes behind every entry of the sorted
\* prefix that does not compare greater than it
RECURSIVE InsertByAisle(_, _)
InsertByAisle(sorted, x) ==
    IF sorted = <<>>
    THEN <<x>>
    ELSE IF AisleComparison(sorted[Len(sorted)], x) > 0
         THEN InsertByAisle(SubSeq(sorted, 1, Len(sorted) - 1), x) \o <<sorted[Len(sorted)]>>
         ELSE sorted \o <<x>>

RECURSIVE SortByAisle(_)
SortByAisle(entries) ==
    IF entries = <<>>
    THEN <<>>
    ELSE InsertByAisle(SortByAisle(SubSeq(entries, 1, Len(entries) - 1)),
                       entries[Len(entries)])

\* groupedByAisle: aisle -> the entries of that aisle, in the order of groceryList
GroupByAisle(groceryList) ==
    [a \in {groceryList[k].aisle : k \in 1..Len(groceryList)} |->
        SelectSeq(groceryList, LAMBDA item : item.aisle = a)]

buildGroceryList(arg) ==
    LET recipes == IF arg.t = "undefined" THEN <<>> ELSE arg.items
        built == AddRecipes(NoGroceries, recipes)
        groceryList == SortByAisle(built.entries)
    IN  [t |-> "object",
         groceryList |-> groceryList,
         groupedByAisle |-> GroupByAisle(groceryList),
         totalEstimatedCost |-> ToFixed2(built.total)]

---------------------------------------------------------------------------
(* Requests: the exposed operations, each suspended at its awaits *)

Procs == {"p", "q"}

\* the longest id list a request passes
MaxIds == 2

ListArg(items) == [t |-> "array", items |-> items]

IdLists == UNION {[1..n -> Ids] : n \in 0..MaxIds}

\* what a caller may pass as recipeIds: nothing, null, a number, a list
DetailArgs ==
    {[t |-> "undefined", items |-> <<>>], [t |-> "null", items |-> <<>>],
     [t |-> "number", items |-> <<>>]} \cup {ListArg(l) : l \in IdLists}

NoCalls == [i \in Ids |-> 0]

NoStat ==
    [info |-> NoCalls, price |-> NoCalls, upsert |-> NoCalls, reads |-> 0, lookups |-> 0,
     search |-> 0]

NoReq == [t |-> "none"]

NoOut == [t |-> "none"]
Returned(recipes) == [t |-> "returned", recipes |-> recipes]
Raised == [t |-> "raised"]
\* the local detailedRecipes of handleRecipeSearch
Detailed(recipes) == [t |-> "detailedRecipes", recipes |-> recipes]
\* res.render('pages/discover', {results, error}) and res.redirect
NoResults == [t |-> "null", items |-> <<>>]
Rendered(results, error) == [t |-> "rendered", results |-> results, error |-> error]
Redirected(number) == [t |-> "redirected", number |-> number]

\* a counter per id, raised by one for every occurrence in idSeq
AddCalls(counter, idSeq) ==
    [i \in Ids |-> counter[i] + Cardinality({k \in 1..Len(idSeq) : idSeq[k] = i})]

CoreInit ==
    /\ cache = [i \in Ids |-> NoRow]
    /\ op = [c \in Procs |-> "idle"]
    /\ pc = [c \in Procs |-> "idle"]
    /\ ids = [c \in Procs |-> <<>>]
    /\ map = [c \in Procs |-> NoMap]
    /\ fetch = [c \in Procs |-> <<>>]
    /\ enrich = [c \in Procs |-> <<>>]
    /\ out = [c \in Procs |-> NoOut]
    /\ stat = [c \in Procs |-> NoStat]
    /\ req = [c \in Procs |-> NoReq]

NormIdle ==
    /\ nArg = Undefined
    /\ nPc = "idle"
    /\ nOnce = NoRecipe
    /\ nTwice = NoRecipe

NoList == [t |-> "none"]

GroceryIdle ==
    /\ gArg = [t |-> "undefined", items |-> <<>>]
    /\ gPc = "idle"
    /\ gOut = NoList

NoArrays == [recipes |-> NoList, sorted |-> NoList]

SortIdle ==
    /\ sArg = [recipes |-> NoList, preferences |-> [t |-> "null"]]
    /\ sMem = NoArrays
    /\ sOut = NoOut

NoBody == [username |-> <<>>, email |-> <<>>, password |-> <<>>]
NoRequest == [body |-> NoBody, before |-> {}, dbFailed |-> FALSE]
NoResponse == [status |-> 0, location |-> "", message |-> ""]

RegisterIdle ==
    /\ users = {}
    /\ rPc = "idle"
    /\ rReq = NoRequest
    /\ rOut = NoResponse

FilterIdle ==
    /\ fArg = [recipes |-> <<>>, filters |-> [t |-> "none"]]
    /\ fPc = "idle"
    /\ fOnce = <<>>
    /\ fTwice = <<>>

\* what one call of ensureRecipeHasCostData issued and returned
NoCall == [calls |-> 0, writes |-> 0, resp |-> "none", ret |-> NoRecipe]
NoLog == [first |-> NoCall, second |-> NoCall]

CostIdle ==
    /\ eArg = [recipe |-> NoRecipe, priceData |-> NoData]
    /\ ePc = [call |-> "none", at |-> "idle"]
    /\ eRec = NoRecipe
    /\ eLog = NoLog

(* fetchRecipeFromApi: one branch per missing id *)

\* what the collaborator answered: a failure, a response without data, data
AnswerKind(resp) ==
    IF resp.kind = "fail" THEN "fail" ELSE IF resp.data = NoData THEN "nodata" ELSE "data"

\* the call of getRecipeInformation is issued when the branch starts
FetchStart(id) ==
    [id |-> id, pc |-> "info", rec |-> NoRecipe, payload |-> NoPayload, threw |-> FALSE]

\* mutant: the failure is not caught and rejects the branch
fetchRecipeFromApiCatch_Rethrow(branch) ==
    [branch EXCEPT !.pc = "done", !.rec = NoRecipe, !.threw = TRUE]

\* the catch of fetchRecipeFromApi: log, return null
fetchRecipeFromApiCatch(branch) ==
    [branch EXCEPT !.pc = "done", !.rec = NoRecipe, !.threw = FALSE]

\* the price breakdown merged into the normalized recipe when there is one
fetchRecipeFromApiMerge(normalizedRecipe, resp) ==
    IF resp.kind = "ok" /\ resp.data # NoData
    THEN applyPriceBreakdownToRecipe(normalizedRecipe, resp.data)
    ELSE normalizedRecipe

\* mutant: a Promise that is never settled
AllDone_Never(branches) == FALSE

\* mutant: Promise.race, fulfilled by the first branch that is done
AllDone_Race(branches) == \E i \in 1..Len(branches) : branches[i].pc = "done"

\* Promise.all is fulfilled when every branch is
AllDone(branches) == \A i \in 1..Len(branches) : branches[i].pc = "done"

FetchInfoResp(c, i) ==
    /\ pc[c] = "fetching"
    /\ i \in 1..Len(fetch[c])
    /\ fetch[c][i].pc = "info"
    /\ \E resp \in InfoResponses(fetch[c][i].id) :
          LET normalizedRecipe == normalizeApiRecipe(resp.data)
          IN  IF resp.kind = "fail"
              THEN /\ fetch' = [fetch EXCEPT ![c][i] = fetchRecipeFromApiCatch(@)]
                   /\ stat' = stat
              ELSE IF normalizedRecipe = NoRecipe
              THEN /\ fetch' = [fetch EXCEPT ![c][i].pc = "done"]
                   /\ stat' = stat
              ELSE /\ fetch' = [fetch EXCEPT ![c][i].pc = "price",
                                             ![c][i].rec = normalizedRecipe]
                   /\ stat' = [stat EXCEPT ![c].price[fetch[c][i].id] = @ + 1]
    /\ UNCHANGED <<cache, op, pc, ids, map, enrich, out, req, normVars, groceryVars, sortVars, registerVars, filterVars, costVars>>

\* getRecipePriceBreakdown answers the fetch with resp
FetchPriceAnswer(c, i, resp) ==
    /\ pc[c] = "fetching"
    /\ i \in 1..Len(fetch[c])
    /\ fetch[c][i].pc = "price"
    /\ LET normalizedRecipe == fetchRecipeFromApiMerge(fetch[c][i].rec, resp)
       IN  IF SaveSkipped(normalizedRecipe)
           THEN /\ fetch' = [fetch EXCEPT ![c][i].pc = "done",
                                          ![c][i].rec = normalizedRecipe]
                /\ stat' = stat
           ELSE /\ fetch' = [fetch EXCEPT ![c][i].pc = "save",
                                          ![c][i].rec = normalizedRecipe,
                                          ![c][i].payload = SavePayload(normalizedRecipe)]
                /\ stat' = [stat EXCEPT ![c].upsert[normalizedRecipe.id] = @ + 1]
    /\ UNCHANGED <<cache, op, pc, ids, map, enrich, out, normVars, groceryVars, sortVars, registerVars, filterVars, costVars>>

FetchPriceResp(c, i) ==
    \E resp \in PriceResponses :
        /\ FetchPriceAnswer(c, i, resp)
        /\ req' = req

\* the same step, with the ids whose price-breakdown fetch failed kept in
\* the request
FetchPriceRespNoted(c, i) ==
    \E resp \in PriceResponses :
        /\ FetchPriceAnswer(c, i, resp)
        /\ req' = IF resp.kind = "fail"
                  THEN [req EXCEPT ![c].priceFailed = @ \cup {fetch[c][i].id}]
                  ELSE req

\* upsertRecipe answers: the row is written, or the store fails and the
\* catch of saveRecipeToDatabase logs it
FetchSaveResp(c, i) ==
    /\ pc[c] = "fetching"
    /\ i \in 1..Len(fetch[c])
    /\ fetch[c][i].pc = "save"
    /\ \E ok \in BOOLEAN :
          /\ cache' = IF ok THEN upsertRecipe(cache, fetch[c][i].payload) ELSE cache
          /\ fetch' = [fetch EXCEPT ![c][i].pc = "done", ![c][i].payload = NoPayload]
          /\ req' = IF req[c].t = "record" THEN [req EXCEPT ![c].saved = ok] ELSE req
    /\ UNCHANGED <<op, pc, ids, map, enrich, out, stat, normVars, groceryVars, sortVars, registerVars, filterVars, costVars>>

(* ensureRecipeHasCostData: one branch per resolved recipe *)

\* the branch runs to its first await when it starts: it returns at once for
\* a recipe with cost data, and issues getRecipePriceBreakdown otherwise
EnrichStart(ref, recipe) ==
    [ref |-> ref, arg |-> recipe,
     pc |-> IF recipe = NoRecipe \/ recipeHasIngredientCost(recipe) THEN "done" ELSE "price",
     called |-> ~(recipe = NoRecipe \/ recipeHasIngredientCost(recipe)),
     resp |-> "none", applied |-> FALSE, wrote |-> FALSE, payload |-> NoPayload]

\* mutant: the test of priceData is missing
ensureRecipeHasCostDataApplies_NoDataTest(resp) == resp.kind = "ok"

\* whether the answer of getRecipePriceBreakdown is merged and saved
ensureRecipeHasCostDataApplies(resp) == resp.kind = "ok" /\ resp.data # NoData

RECURSIVE Ascending(_)
Ascending(S) ==
    IF S = {} THEN <<>>
    ELSE LET least == CHOOSE x \in S : \A y \in S : x <= y
         IN  <<least>> \o Ascending(S \ {least})

\* mutant: the values of the map in the order of its keys, not of recipeIds
OrderedRefs_MapOrder(idSeq, m) ==
    Ascending({i \in Ids : m[i] # NoRecipe /\ \E k \in 1..Len(idSeq) : idSeq[k] = i})

\* recipeIds.map(id => cachedRecipes.get(id)).filter(Boolean), as the keys
OrderedRefs(idSeq, m) == SelectSeq(idSeq, LAMBDA i : m[i] # NoRecipe)

EnrichBranches(refs, m) == [j \in 1..Len(refs) |-> EnrichStart(refs[j], m[refs[j]])]

CalledRefs(branches) ==
    LET called == SelectSeq(branches, LAMBDA b : b.called)
    IN  [j \in 1..Len(called) |-> called[j].ref]

EnrichPriceResp(c, j) ==
    /\ pc[c] = "enriching"
    /\ j \in 1..Len(enrich[c])
    /\ enrich[c][j].pc = "price"
    /\ \E resp \in PriceResponses :
          LET ref == enrich[c][j].ref
              recipe == map[c][ref]
              enriched == applyPriceBreakdownToRecipe(recipe, resp.data)
          IN  IF ensureRecipeHasCostDataApplies(resp)
              THEN /\ map' = [map EXCEPT ![c][ref] = enriched]
                   /\ IF SaveSkipped(enriched)
                      THEN /\ enrich' = [enrich EXCEPT ![c][j].pc = "done",
                                                       ![c][j].resp = AnswerKind(resp),
                                                       ![c][j].applied = TRUE]
                           /\ stat' = stat
                      ELSE /\ enrich' = [enrich EXCEPT ![c][j].pc = "save",
                                                       ![c][j].resp = AnswerKind(resp),
                                                       ![c][j].applied = TRUE,
                                                       ![c][j].wrote = TRUE,
                                                       ![c][j].payload = SavePayload(enriched)]
                           /\ stat' = [stat EXCEPT ![c].upsert[enriched.id] = @ + 1]
              ELSE /\ enrich' = [enrich EXCEPT ![c][j].pc = "done",
                                               ![c][j].resp = AnswerKind(resp)]
                   /\ UNCHANGED <<map, stat>>
    /\ UNCHANGED <<cache, op, pc, ids, fetch, out, req, normVars, groceryVars, sortVars, registerVars, filterVars, costVars>>

EnrichSaveResp(c, j) ==
    /\ pc[c] = "enriching"
    /\ j \in 1..Len(enrich[c])
    /\ enrich[c][j].pc = "save"
    /\ \E ok \in BOOLEAN :
          cache' = IF ok THEN upsertRecipe(cache, enrich[c][j].payload) ELSE cache
    /\ enrich' = [enrich EXCEPT ![c][j].pc = "done", ![c][j].payload = NoPayload]
    /\ UNCHANGED <<op, pc, ids, map, fetch, out, stat, req, normVars, groceryVars, sortVars, registerVars, filterVars, costVars>>

(* getDetailedRecipes *)

\* fetchedRecipes.forEach: a recipe with an id is set under its id
RECURSIVE MergeFetched(_, _)
MergeFetched(m, branches) ==
    IF branches = <<>>
    THEN m
    ELSE LET recipe == Head(branches).rec
         IN  MergeFetched(
                 IF recipe # NoRecipe /\ recipe.id # 0 /\ recipe.id \in Ids
                 THEN [m EXCEPT ![recipe.id] = recipe] ELSE m,
                 Tail(branches))

\* from the re-projection on: the cost enrichment of every resolved recipe starts
StartEnriching(c, m) ==
    LET branches == EnrichBranches(OrderedRefs(ids[c], m), m)
    IN  /\ map' = [map EXCEPT ![c] = m]
        /\ enrich' = [enrich EXCEPT ![c] = branches]
        /\ stat' = [stat EXCEPT ![c].price = AddCalls(@, CalledRefs(branches))]
        /\ pc' = [pc EXCEPT ![c] = "enriching"]

StartDetailed(c, arg) ==
    /\ op[c] = "idle"
    /\ op' = [op EXCEPT ![c] = "detail"]
    /\ req' = [req EXCEPT ![c] = [t |-> "detail", lookup |-> "none", found |-> {},
                                       priceFailed |-> {}]]
    /\ LET recipeIds == IF arg.t = "undefined" THEN ListArg(<<>>) ELSE arg
       IN  IF recipeIds.t # "array" \/ recipeIds.items = <<>>
           THEN /\ pc' = [pc EXCEPT ![c] = "done"]
                /\ out' = [out EXCEPT ![c] = Returned(<<>>)]
                /\ UNCHANGED <<ids, stat>>
           ELSE /\ pc' = [pc EXCEPT ![c] = "lookup"]
                /\ ids' = [ids EXCEPT ![c] = recipeIds.items]
                /\ stat' = [stat EXCEPT ![c].reads = @ + 1]
                /\ out' = out
    /\ UNCHANGED <<cache, map, fetch, enrich, normVars, groceryVars, sortVars, registerVars, filterVars, costVars>>

\* mutant: a lookup that failed is taken as one that found every recipe
getCachedRecipesMapCatch_AllFound == [i \in Ids |-> normalizeApiRecipe(RawRecipe(i))]

\* the catch of getCachedRecipesMap: log, return new Map()
getCachedRecipesMapCatch == NoMap

\* mutant: every id is fetched, found by the lookup or not
MissingIds_All(idSeq, cachedRecipes) == idSeq

\* recipeIds.filter((id) => !cachedRecipes.has(id))
MissingIds(idSeq, cachedRecipes) == SelectSeq(idSeq, LAMBDA i : cachedRecipes[i] = NoRecipe)

\* the batch lookup answers with the rows, or fails and is taken as empty
LookupResp(c) ==
    /\ pc[c] = "lookup"
    /\ \E ok \in BOOLEAN :
          LET cachedRecipes ==
                  IF ok THEN CachedMapOf(findRawRecipesBySpoonacularIds(cache, ids[c]))
                  ELSE getCachedRecipesMapCatch
              missingIds == MissingIds(ids[c], cachedRecipes)
          IN  /\ IF missingIds # <<>>
                 THEN /\ fetch' = [fetch EXCEPT ![c] =
                                      [i \in 1..Len(missingIds) |-> FetchStart(missingIds[i])]]
                      /\ map' = [map EXCEPT ![c] = cachedRecipes]
                      /\ stat' = [stat EXCEPT ![c].info = AddCalls(@, missingIds)]
                      /\ pc' = [pc EXCEPT ![c] = "fetching"]
                      /\ UNCHANGED enrich
                 ELSE /\ StartEnriching(c, cachedRecipes)
                      /\ UNCHANGED fetch
              /\ req' = [req EXCEPT ![c].lookup = IF ok THEN "ok" ELSE "failed",
                                    ![c].found = {i \in Ids : cachedRecipes[i] # NoRecipe}]
    /\ UNCHANGED <<cache, op, ids, out, normVars, groceryVars, sortVars, registerVars, filterVars, costVars>>

\* Promise.all over the fetches: rejected as soon as one branch has thrown,
\* fulfilled when all are done
FetchJoin(c) ==
    /\ op[c] \in {"detail", "search"}
    /\ pc[c] = "fetching"
    /\ IF \E i \in 1..Len(fetch[c]) : fetch[c][i].threw
       THEN /\ IF op[c] = "search"
               THEN /\ pc' = [pc EXCEPT ![c] = "favoritesCatch"]
                    /\ out' = out
               ELSE /\ pc' = [pc EXCEPT ![c] = "done"]
                    /\ out' = [out EXCEPT ![c] = Raised]
            /\ UNCHANGED <<map, enrich, stat>>
       ELSE /\ AllDone(fetch[c])
            /\ StartEnriching(c, MergeFetched(map[c], fetch[c]))
            /\ UNCHANGED out
    /\ UNCHANGED <<cache, op, ids, fetch, req, normVars, groceryVars, sortVars, registerVars, filterVars, costVars>>

\* Promise.all over the enrichments, then filter(Boolean); handleRecipeSearch
\* goes on to getUserPreferences with the recipes it is returned
EnrichJoin(c) ==
    /\ pc[c] = "enriching"
    /\ AllDone(enrich[c])
    /\ LET enrichedRecipes == [j \in 1..Len(enrich[c]) |-> map[c][enrich[c][j].ref]]
           recipes == SelectSeq(enrichedRecipes, LAMBDA r : r # NoRecipe)
       IN  IF op[c] = "search"
           THEN /\ out' = [out EXCEPT ![c] = Detailed(recipes)]
                /\ pc' = [pc EXCEPT ![c] = "prefs"]
           ELSE /\ out' = [out EXCEPT ![c] = Returned(recipes)]
                /\ pc' = [pc EXCEPT ![c] = "done"]
    /\ UNCHANGED <<cache, op, ids, map, fetch, enrich, stat, req, normVars, groceryVars, sortVars, registerVars, filterVars, costVars>>

(* ensureRecipeRecord *)

ReturnedId(n) == [t |-> "returnedId", id |-> n]

\* a recipeId of 0 stands for a falsy one; the first getRecipeRecordId is issued
StartRecord(c, recipeId) ==
    /\ op[c] = "idle"
    /\ op' = [op EXCEPT ![c] = "record"]
    /\ IF recipeId = 0
       THEN /\ pc' = [pc EXCEPT ![c] = "done"]
            /\ out' = [out EXCEPT ![c] = ReturnedId(0)]
            /\ UNCHANGED <<ids, stat, req>>
       ELSE /\ pc' = [pc EXCEPT ![c] = "record1"]
            /\ ids' = [ids EXCEPT ![c] = <<recipeId>>]
            /\ stat' = [stat EXCEPT ![c].lookups = @ + 1]
            /\ req' = [req EXCEPT ![c] = [t |-> "record", had |-> cache[recipeId], saved |-> FALSE]]
            /\ out' = out
    /\ UNCHANGED <<cache, map, fetch, enrich, normVars, groceryVars, sortVars, registerVars, filterVars, costVars>>

\* the first getRecipeRecordId answers: nothing catches its failure
RecordFirstResp(c) ==
    /\ pc[c] = "record1"
    /\ \E ok \in BOOLEAN :
          LET recipeRecord == getRecipeRecordId(cache, ids[c][1])
          IN  IF ~ok
              THEN /\ pc' = [pc EXCEPT ![c] = "done"]
                   /\ out' = [out EXCEPT ![c] = Raised]
                   /\ UNCHANGED <<fetch, stat>>
              ELSE IF recipeRecord # NoRow
              THEN /\ pc' = [pc EXCEPT ![c] = "done"]
                   /\ out' = [out EXCEPT ![c] = ReturnedId(recipeRecord.recipe_id)]
                   /\ UNCHANGED <<fetch, stat>>
              ELSE /\ pc' = [pc EXCEPT ![c] = "fetching"]
                   /\ fetch' = [fetch EXCEPT ![c] = <<FetchStart(ids[c][1])>>]
                   /\ stat' = [stat EXCEPT ![c].info = AddCalls(@, ids[c])]
                   /\ out' = out
    /\ UNCHANGED <<cache, op, ids, map, enrich, req, normVars, groceryVars, sortVars, registerVars, filterVars, costVars>>

\* fetchRecipeFromApi has returned: the second getRecipeRecordId is issued
RecordFetched(c) ==
    /\ op[c] = "record"
    /\ pc[c] = "fetching"
    /\ IF \E i \in 1..Len(fetch[c]) : fetch[c][i].threw
       THEN /\ pc' = [pc EXCEPT ![c] = "done"]
            /\ out' = [out EXCEPT ![c] = Raised]
            /\ stat' = stat
       ELSE /\ AllDone(fetch[c])
            /\ pc' = [pc EXCEPT ![c] = "record2"]
            /\ stat' = [stat EXCEPT ![c].lookups = @ + 1]
            /\ out' = out
    /\ UNCHANGED <<cache, op, ids, map, fetch, enrich, req, normVars, groceryVars, sortVars, registerVars, filterVars, costVars>>

RecordSecondResp(c) ==
    /\ pc[c] = "record2"
    /\ \E ok \in BOOLEAN :
          LET recipeRecord == getRecipeRecordId(cache, ids[c][1])
          IN  out' = [out EXCEPT ![c] =
                         IF ~ok THEN Raised
                         ELSE IF recipeRecord # NoRow
                              THEN ReturnedId(recipeRecord.recipe_id)
                              ELSE ReturnedId(0)]
    /\ pc' = [pc EXCEPT ![c] = "done"]
    /\ UNCHANGED <<cache, op, ids, map, fetch, enrich, stat, req, normVars, groceryVars, sortVars, registerVars, filterVars, costVars>>

(* saveRecipeToDatabase, called on its own *)

\* what a caller may pass: no recipe, a normalized recipe without an id, and
\* the normalized recipes of the catalogue
SaveArgs ==
    {NoRecipe, normalizeApiRecipe([RawRecipe(1) EXCEPT !.id = 0])}
    \cup {normalizeApiRecipe(RawRecipe(i)) : i \in Ids}

Saved(recipe) == [t |-> "saved", recipe |-> recipe]

\* no recipe and a recipe without an id return null at once; otherwise the
\* upsert is issued
StartSave(c, recipe) ==
    /\ op[c] = "idle"
    /\ op' = [op EXCEPT ![c] = "save"]
    /\ req' = [req EXCEPT ![c] = [t |-> "save", arg |-> recipe]]
    /\ IF SaveSkipped(recipe)
       THEN /\ pc' = [pc EXCEPT ![c] = "done"]
            /\ out' = [out EXCEPT ![c] = Saved(NoRecipe)]
            /\ stat' = stat
       ELSE /\ pc' = [pc EXCEPT ![c] = "saving"]
            /\ out' = out
            /\ stat' = [stat EXCEPT ![c].upsert[recipe.id] = @ + 1]
    /\ UNCHANGED <<cache, ids, map, fetch, enrich, normVars, groceryVars, sortVars, registerVars, filterVars, costVars>>

\* upsertRecipe answers: the row is written, or the failure is logged; the
\* recipe is returned either way
SaveResp(c) ==
    /\ pc[c] = "saving"
    /\ \E ok \in BOOLEAN :
          cache' = IF ok THEN upsertRecipe(cache, SavePayload(req[c].arg)) ELSE cache
    /\ pc' = [pc EXCEPT ![c] = "done"]
    /\ out' = [out EXCEPT ![c] = Saved(req[c].arg)]
    /\ UNCHANGED <<op, ids, map, fetch, enrich, stat, req, normVars, groceryVars, sortVars, registerVars, filterVars, costVars>>

(* sortRecipesByPreferences *)

Infinity == [t |-> "infinity", v |-> 0]

\* the sign of a - b; Infinity - Infinity is NaN, which sort takes as 0
Difference(a, b) ==
    IF a.t = "infinity"
    THEN IF b.t = "infinity" THEN 0 ELSE 1
    ELSE IF b.t = "infinity" THEN -1
    ELSE IF a.v > b.v THEN 1 ELSE IF a.v < b.v THEN -1 ELSE 0

NoPreferences == [t |-> "null"]
NoFactors == [t |-> "undefined"]
Factors(price, time, calories, health) ==
    [t |-> "object", price |-> price, time |-> time, calories |-> calories,
     health |-> health]
\* an absent sort_by or sort_order is the empty string
Preferences(sortBy, sortOrder, factors) ==
    [t |-> "object", sort_by |-> sortBy, sort_order |-> sortOrder,
     priority_factors |-> factors]

\* the score of a recipe, as a fixed-point number
calculateScore(recipe, preferences) ==
    LET factors == IF preferences.priority_factors = NoFactors
                   THEN Factors(1, 1, 1, 1) ELSE preferences.priority_factors
        price == NumOr(recipe.pricePerServing, Num(0)).v
        time == NumOr(recipe.readyInMinutes, Num(0)).v
        health == NumOr(recipe.healthScore, Num(0)).v
    IN    (IF price # 0 /\ factors.price # 0
           THEN (100 * Scale - price * 10) * factors.price ELSE 0)
        + (IF time # 0 /\ factors.time # 0
           THEN (100 * Scale - time) * factors.time ELSE 0)
        + (IF recipe.calories.t = "number" /\ factors.calories # 0
           THEN (recipe.calories.v \div 10) * factors.calories ELSE 0)
        + (IF health # 0 /\ factors.health # 0 THEN health * factors.health ELSE 0)

\* the sign of what the comparator of sorted.sort returns for (a, b)
Comparison(a, b, preferences) ==
    LET sortBy == IF preferences.sort_by = "" THEN "relevance" ELSE preferences.sort_by
        sortOrder == IF preferences.sort_order = "" THEN "asc" ELSE preferences.sort_order
        isAscending == sortOrder = "asc"
        comparison ==
            CASE sortBy = "price" ->
                     Difference(NumOr(a.pricePerServing, Infinity),
                                NumOr(b.pricePerServing, Infinity))
              [] sortBy = "time" ->
                     Difference(NumOr(a.readyInMinutes, Infinity),
                                NumOr(b.readyInMinutes, Infinity))
              [] sortBy = "calories" ->
                     Difference(NumOr(a.calories, Num(0)), NumOr(b.calories, Num(0)))
              [] sortBy = "health" ->
                     Difference(NumOr(b.healthScore, Num(0)), NumOr(a.healthScore, Num(0)))
              [] sortBy = "popularity" ->
                     Difference(NumOr(b.aggregateLikes, Num(0)),
                                NumOr(a.aggregateLikes, Num(0)))
              [] OTHER ->
                     Difference(Num(calculateScore(b, preferences)),
                                Num(calculateScore(a, preferences)))
    IN  IF isAscending THEN comparison ELSE 0 - comparison

\* Array.prototype.sort is stable: x goes behind every element of the sorted
\* prefix that does not compare greater than it
RECURSIVE InsertSorted(_, _, _)
InsertSorted(sorted, x, preferences) ==
    IF sorted = <<>>
    THEN <<x>>
    ELSE IF Comparison(sorted[Len(sorted)], x, preferences) > 0
         THEN InsertSorted(SubSeq(sorted, 1, Len(sorted) - 1), x, preferences)
                  \o <<sorted[Len(sorted)]>>
         ELSE sorted \o <<x>>

RECURSIVE StableSort(_, _)
StableSort(recipes, preferences) ==
    IF recipes = <<>>
    THEN <<>>
    ELSE InsertSorted(StableSort(SubSeq(recipes, 1, Len(recipes) - 1), preferences),
                      recipes[Len(recipes)], preferences)

sortRecipesByPreferences(recipes, preferences) ==
    IF recipes = <<>> \/ preferences = NoPreferences
    THEN recipes
    ELSE StableSort(recipes, preferences)

(* handleRecipeSearch *)

\* number = 10 and parseInt(number, 10) || 10
DefaultNumber == 10
\* Math.min(..., 100)
MaxNumber == 100
\* recipeIds.slice(0, 20)
DetailLimit == 20

Min(a, b) == IF a <= b THEN a ELSE b

\* parseInt(x, 10) of a non-negative number or numeric string: its integer part
ParseInt(x) == IF x.t \in {"number", "numstr"} THEN Num((x.v \div Scale) * Scale) ELSE NaN

\* params.number, as an integer
SearchNumber(number) ==
    LET given == IF number.t = "undefined" THEN Num(DefaultNumber * Scale) ELSE number
        parsed == NumOr(ParseInt(given), Num(DefaultNumber * Scale))
    IN  Min(parsed.v \div Scale, MaxNumber)

\* req.body: number absent, "1.5", "250", "abc"; ingredients given or not
SearchBodies ==
    {[number |-> n, ingredients |-> i] :
        n \in {Undefined, NumStr(Dec(1, 50)), NumStr(Dec(250, 0)), BadStr},
        i \in BOOLEAN}

Hit(id) == [id |-> id]

\* searchRecipes(params): it fails, or answers without results, or with at most
\* params.number hits; a hit may lack its id (0) and an id may come twice
SearchResponses(number) ==
    {[kind |-> "fail", results |-> NoResults], [kind |-> "ok", results |-> NoResults]}
    \cup {[kind |-> "ok", results |-> ListArg([k \in 1..Len(h) |-> Hit(h[k])])] :
             h \in UNION {[1..m -> Ids \cup {0}] : m \in 0..Min(number, MaxIds)}}

StartSearch(c, body) ==
    /\ op[c] = "idle"
    /\ op' = [op EXCEPT ![c] = "search"]
    /\ LET number == SearchNumber(body.number)
       IN  /\ req' = [req EXCEPT ![c] =
                         [t |-> "search", number |-> number, cached |-> RowCount(cache),
                          hits |-> <<>>, ranked |-> FALSE, lookup |-> "none", found |-> {}]]
           /\ IF body.ingredients
              THEN /\ pc' = [pc EXCEPT ![c] = "done"]
                   /\ out' = [out EXCEPT ![c] = Redirected(number)]
                   /\ stat' = stat
              ELSE /\ pc' = [pc EXCEPT ![c] = "search"]
                   /\ out' = out
                   /\ stat' = [stat EXCEPT ![c].search = @ + 1]
    /\ UNCHANGED <<cache, ids, map, fetch, enrich, normVars, groceryVars, sortVars, registerVars, filterVars, costVars>>

\* searchRecipes answers; getDetailedRecipes runs to its first await
SearchResp(c) ==
    /\ pc[c] = "search"
    /\ \E resp \in SearchResponses(req[c].number) :
          LET searchResults == IF resp.results.t = "array" THEN resp.results.items ELSE <<>>
              hitIds == [k \in 1..Len(searchResults) |-> searchResults[k].id]
              recipeIds == SelectSeq(hitIds, LAMBDA i : i # 0)
              limitedRecipeIds == SubSeq(recipeIds, 1, Min(Len(recipeIds), DetailLimit))
          IN  IF resp.kind = "fail"
              THEN /\ pc' = [pc EXCEPT ![c] = "favoritesCatch"]
                   /\ UNCHANGED <<ids, out, stat, req>>
              ELSE /\ req' = [req EXCEPT ![c].hits = hitIds]
                   /\ IF limitedRecipeIds = <<>>
                      THEN /\ pc' = [pc EXCEPT ![c] = "prefs"]
                           /\ out' = [out EXCEPT ![c] = Detailed(<<>>)]
                           /\ UNCHANGED <<ids, stat>>
                      ELSE /\ pc' = [pc EXCEPT ![c] = "lookup"]
                           /\ ids' = [ids EXCEPT ![c] = limitedRecipeIds]
                           /\ stat' = [stat EXCEPT ![c].reads = @ + 1]
                           /\ out' = out
    /\ UNCHANGED <<cache, op, map, fetch, enrich, normVars, groceryVars, sortVars, registerVars, filterVars, costVars>>

\* what getUserPreferences may answer
PreferenceResponses ==
    {[kind |-> "fail", data |-> NoPreferences], [kind |-> "ok", data |-> NoPreferences]}
    \cup {[kind |-> "ok", data |-> Preferences(k, o, f)] :
             k \in {"", "price", "time", "calories", "health", "popularity"},
             o \in {"", "desc"},
             f \in {NoFactors, Factors(2, 0, 1, 1)}}

\* getUserPreferences answers; the recipes are sorted, getUserFavoriteIds is called
PrefsResp(c) ==
    /\ pc[c] = "prefs"
    /\ \E resp \in PreferenceResponses :
          IF resp.kind = "fail"
          THEN /\ pc' = [pc EXCEPT ![c] = "favoritesCatch"]
               /\ UNCHANGED <<out, req>>
          ELSE /\ pc' = [pc EXCEPT ![c] = "favorites"]
               /\ out' = [out EXCEPT ![c] =
                             Detailed(sortRecipesByPreferences(out[c].recipes, resp.data))]
               /\ req' = [req EXCEPT ![c].ranked =
                             out[c].recipes # <<>> /\ resp.data # NoPreferences]
    /\ UNCHANGED <<cache, op, ids, map, fetch, enrich, stat, normVars, groceryVars, sortVars, registerVars, filterVars, costVars>>

\* getUserFavoriteIds answers: the page is rendered, or the catch is entered
FavoritesResp(c) ==
    /\ pc[c] = "favorites"
    /\ \E ok \in BOOLEAN :
          IF ok
          THEN /\ pc' = [pc EXCEPT ![c] = "done"]
               /\ out' = [out EXCEPT ![c] =
                             Rendered(ListArg(out[c].recipes), out[c].recipes = <<>>)]
          ELSE /\ pc' = [pc EXCEPT ![c] = "favoritesCatch"]
               /\ out' = out
    /\ UNCHANGED <<cache, op, ids, map, fetch, enrich, stat, req, normVars, groceryVars, sortVars, registerVars, filterVars, costVars>>

\* getUserFavoriteIds of the catch answers: the error page, or the failure escapes
FavoritesCatchResp(c) ==
    /\ pc[c] = "favoritesCatch"
    /\ \E ok \in BOOLEAN :
          out' = [out EXCEPT ![c] = IF ok THEN Rendered(NoResults, TRUE) ELSE Raised]
    /\ pc' = [pc EXCEPT ![c] = "done"]
    /\ UNCHANGED <<cache, op, ids, map, fetch, enrich, stat, req, normVars, groceryVars, sortVars, registerVars, filterVars, costVars>>

\* the caller has its answer; the request slot is free for the next call
Finish(c) ==
    /\ pc[c] = "done"
    /\ op' = [op EXCEPT ![c] = "idle"]
    /\ pc' = [pc EXCEPT ![c] = "idle"]
    /\ ids' = [ids EXCEPT ![c] = <<>>]
    /\ map' = [map EXCEPT ![c] = NoMap]
    /\ fetch' = [fetch EXCEPT ![c] = <<>>]
    /\ enrich' = [enrich EXCEPT ![c] = <<>>]
    /\ out' = [out EXCEPT ![c] = NoOut]
    /\ stat' = [stat EXCEPT ![c] = NoStat]
    /\ req' = [req EXCEPT ![c] = NoReq]
    /\ UNCHANGED <<cache, normVars, groceryVars, sortVars, registerVars, filterVars, costVars>>

Step(c) ==
    \/ \E arg \in DetailArgs : StartDetailed(c, arg)
    \/ LookupResp(c)
    \/ \E i \in 1..MaxIds : FetchInfoResp(c, i)
    \/ \E i \in 1..MaxIds : FetchPriceResp(c, i)
    \/ \E i \in 1..MaxIds : FetchSaveResp(c, i)
    \/ FetchJoin(c)
    \/ \E j \in 1..MaxIds : EnrichPriceResp(c, j)
    \/ \E j \in 1..MaxIds : EnrichSaveResp(c, j)
    \/ EnrichJoin(c)
    \/ \E recipeId \in Ids \cup {0} : StartRecord(c, recipeId)
    \/ RecordFirstResp(c)
    \/ RecordFetched(c)
    \/ RecordSecondResp(c)
    \/ \E recipe \in SaveArgs : StartSave(c, recipe)
    \/ SaveResp(c)
    \/ Finish(c)

Init ==
    CoreInit /\ NormIdle /\ GroceryIdle /\ SortIdle /\ RegisterIdle /\ FilterIdle /\ CostIdle

Next == Step("p")

Spec == Init /\ [][Next]_vars

---------------------------------------------------------------------------
(* Properties of the detail resolver, the cost enricher and the cache store *)

RecipeIds(recipes) == [k \in 1..Len(recipes) |-> recipes[k].id]

RECURSIVE IsSubsequence(_, _)
IsSubsequence(s, t) ==
    IF s = <<>> THEN TRUE
    ELSE IF t = <<>> THEN FALSE
    ELSE IF Head(s) = Head(t) THEN IsSubsequence(Tail(s), Tail(t))
    ELSE IsSubsequence(s, Tail(t))

\* C1: whatever the order in which the concurrent fetches complete, the ids
\* of the recipes getDetailedRecipes returns are a subsequence of recipeIds
C1_OrderPreserved ==
    \A c \in Procs :
        op[c] = "detail" /\ out[c].t = "returned"
            => IsSubsequence(RecipeIds(out[c].recipes), ids[c])

\* two ids, both fetched concurrently, returned in the caller's order 2, 1
C1_Witness ==
    \E c \in Procs :
        /\ op[c] = "detail" /\ out[c].t = "returned"
        /\ ids[c] = <<2, 1>> /\ Len(fetch[c]) = 2
        /\ RecipeIds(out[c].recipes) = <<2, 1>>

\* an id is resolved when the batch lookup hit it (no fetch was started for
\* it) or when one of its fetches brought a recipe
ResolvedId(c, i) ==
    \/ \A k \in 1..Len(fetch[c]) : fetch[c][k].id # i
    \/ \E k \in 1..Len(fetch[c]) : fetch[c][k].id = i /\ fetch[c][k].rec # NoRecipe

\* C2: getDetailedRecipes never raises, and it returns exactly the recipes of
\* the ids that were cache hits or were fetched, in order; an id whose fetch
\* failed is left out
C2_FailuresOmitNotAbort ==
    \A c \in Procs :
        op[c] = "detail" =>
            /\ out[c] # Raised
            /\ out[c].t = "returned" =>
                   RecipeIds(out[c].recipes)
                       = SelectSeq(ids[c], LAMBDA i : ResolvedId(c, i))

\* of two missing ids the fetch of 1 failed and that of 2 brought its recipe
C2_Witness ==
    \E c \in Procs :
        /\ op[c] = "detail" /\ out[c].t = "returned"
        /\ ids[c] = <<1, 2>> /\ Len(fetch[c]) = 2
        /\ fetch[c][1].rec = NoRecipe /\ fetch[c][2].rec # NoRecipe
        /\ RecipeIds(out[c].recipes) = <<2>>

\* at least one ingredient carries a numeric, non-NaN estimatedCost.value
HasNumericCost(recipe) ==
    /\ recipe # NoRecipe
    /\ recipe.extendedIngredients.t = "array"
    /\ \E i \in 1..Len(recipe.extendedIngredients.items) :
          recipe.extendedIngredients.items[i].estimatedCost.t = "number"

\* C3: for a recipe with an ingredient that carries a numeric cost,
\* ensureRecipeHasCostData calls no price breakdown, merges nothing, writes
\* nothing and returns at once
C3_CostDataSkipsEnrichment ==
    \A c \in Procs : \A j \in 1..Len(enrich[c]) :
        HasNumericCost(enrich[c][j].arg) =>
            /\ enrich[c][j].pc = "done"
            /\ ~enrich[c][j].called
            /\ ~enrich[c][j].applied
            /\ ~enrich[c][j].wrote
            /\ enrich[c][j].resp = "none"

\* a request has returned a recipe that entered the enrichment with cost data,
\* some of its ingredients priced and some not
C3_Witness ==
    \E c \in Procs : \E j \in 1..Len(enrich[c]) :
        /\ out[c].t = "returned"
        /\ HasNumericCost(enrich[c][j].arg)
        /\ \E i \in 1..Len(enrich[c][j].arg.extendedIngredients.items) :
              enrich[c][j].arg.extendedIngredients.items[i].estimatedCost.t # "number"

\* C4: when the price breakdown fails or brings no data,
\* ensureRecipeHasCostData merges nothing, writes nothing, does not raise, and
\* its recipe is as it was handed in (unless another branch that holds the
\* same object merged into it)
C4_EnrichFailureLeavesRecipe ==
    \A c \in Procs : \A j \in 1..Len(enrich[c]) :
        enrich[c][j].pc = "done" /\ enrich[c][j].resp \in {"fail", "nodata"} =>
            /\ ~enrich[c][j].applied
            /\ ~enrich[c][j].wrote
            /\ enrich[c][j].payload = NoPayload
            /\ out[c] # Raised
            /\ (\A k \in 1..Len(enrich[c]) :
                   enrich[c][k].ref = enrich[c][j].ref => ~enrich[c][k].applied)
                 => map[c][enrich[c][j].ref] = enrich[c][j].arg

\* a request has returned although the price breakdown of one recipe failed
\* and that of another brought no data
C4_Witness ==
    \E c \in Procs : \E j, k \in 1..Len(enrich[c]) :
        /\ out[c].t = "returned"
        /\ enrich[c][j].resp = "fail"
        /\ enrich[c][k].resp = "nodata"
        /\ Len(out[c].recipes) = 2

\* C5: no error of the data layer reaches the caller of an exposed operation
C5_NoDataLayerErrorEscapes ==
    \A c \in Procs : out[c] # Raised

\* C15: ensureRecipeRecord returns null without a call to the store or to the
\* API for a falsy id; for an id that had a row it returns the recipe_id of
\* that row without a call to the API; otherwise it fetches the recipe from
\* the API once and returns the recipe_id of the row that was written, or null
\* when the fetch or the write failed
C15_EnsureRecipeRecord ==
    \A c \in Procs :
        op[c] = "record" /\ out[c].t = "returnedId" =>
            IF ids[c] = <<>>
            THEN out[c].id = 0 /\ stat[c] = NoStat
            ELSE LET id == ids[c][1]
                 IN  IF req[c].had # NoRow
                     THEN /\ out[c].id = req[c].had.recipe_id
                          /\ stat[c].info = NoCalls
                          /\ stat[c].price = NoCalls
                          /\ stat[c].upsert = NoCalls
                     ELSE /\ stat[c].info = [NoCalls EXCEPT ![id] = 1]
                          /\ Len(fetch[c]) = 1
                          /\ IF fetch[c][1].rec # NoRecipe /\ req[c].saved
                             THEN /\ cache[id] # NoRow
                                  /\ cache[id].raw_data.id = id
                                  /\ out[c].id = cache[id].recipe_id
                                  /\ out[c].id # 0
                             ELSE out[c].id = 0

\* recipe 2 had no row while recipe 1 had: it was fetched and written as the
\* second row, whose recipe_id is returned
C15_Witness ==
    \E c \in Procs :
        /\ op[c] = "record" /\ out[c].t = "returnedId"
        /\ ids[c] = <<2>>
        /\ req[c].had = NoRow
        /\ req[c].saved
        /\ out[c].id = 2

\* the price of recipe id converted from minor units once
ConvertedOnce(id) ==
    LET raw == RawRecipe(id).pricePerServing
    IN  IF raw.t = "number" THEN Num(ToFixed2Div(raw.v, 100)) ELSE JsNull

\* C19: every recipe returned to a caller and every recipe stored in the cache
\* has its pricePerServing converted from minor units exactly once, also when
\* it was a cache hit and when it was saved again after the enrichment
C19_PriceConvertedOnce ==
    /\ \A i \in Ids :
          cache[i] # NoRow =>
              /\ cache[i].raw_data.pricePerServing = ConvertedOnce(i)
              /\ cache[i].price_per_serving = ConvertedOnce(i)
    /\ \A c \in Procs :
          out[c].t = "returned" =>
              \A k \in 1..Len(out[c].recipes) :
                  out[c].recipes[k].pricePerServing = ConvertedOnce(out[c].recipes[k].id)

\* recipe 1 was a cache hit, was enriched and saved again, and is returned
\* with the price 1.64
C19_Witness ==
    \E c \in Procs :
        /\ op[c] = "detail" /\ out[c].t = "returned"
        /\ fetch[c] = <<>>
        /\ \E j \in 1..Len(enrich[c]) : enrich[c][j].ref = 1 /\ enrich[c][j].wrote
        /\ \E k \in 1..Len(out[c].recipes) :
              /\ out[c].recipes[k].id = 1
              /\ out[c].recipes[k].pricePerServing = Num(Dec(1, 64))
        /\ cache[1] # NoRow
        /\ cache[1].raw_data.totalIngredientCost = Num(Dec(15, 40))
        /\ cache[1].raw_data.pricePerServing = Num(Dec(1, 64))

\* the recipes a run of getDetailedRecipes returns when every id of idSeq was
\* missing from the cache: those its fetches brought, in the caller's order,
\* each as fetched or with the price breakdown the enrichment merged
FetchedAs(branches, i) ==
    {branches[k].rec : k \in {n \in 1..Len(branches) : branches[n].id = i}} \ {NoRecipe}

C20_AsWithEmptyCache(c) ==
    /\ pc[c] # "lookup" =>
          /\ [k \in 1..Len(fetch[c]) |-> fetch[c][k].id] = ids[c]
          /\ stat[c].info = AddCalls(NoCalls, ids[c])
    /\ pc[c] = "fetching" => map[c] = NoMap
    /\ out[c].t = "returned" =>
          /\ RecipeIds(out[c].recipes)
                = SelectSeq(ids[c], LAMBDA i : FetchedAs(fetch[c], i) # {})
          /\ \A k \in 1..Len(out[c].recipes) :
                \E f \in FetchedAs(fetch[c], out[c].recipes[k].id) :
                    out[c].recipes[k] \in {f, applyPriceBreakdownToRecipe(f, Breakdown)}

\* C20: when the batch lookup of the cache fails, getDetailedRecipes goes on
\* as with a cache that holds none of the requested ids: it fetches every
\* requested id and returns the fetched recipes in the caller's order
C20_FailedLookupAsEmptyCache ==
    \A c \in Procs :
        op[c] = "detail" /\ req[c].lookup = "failed" => C20_AsWithEmptyCache(c)

\* the lookup failed while the cache held the requested recipe 1 (its row is
\* older than that of recipe 2, which this request does not write); recipe 1
\* was fetched again, once per occurrence, and is returned
C20_Witness ==
    \E c \in Procs :
        /\ op[c] = "detail" /\ req[c].lookup = "failed"
        /\ ids[c] = <<1, 1>>
        /\ cache[1] # NoRow /\ cache[1].recipe_id = 1
        /\ cache[2] # NoRow /\ cache[2].recipe_id = 2
        /\ out[c].t = "returned"
        /\ RecipeIds(out[c].recipes) = <<1, 1>>
        /\ stat[c].info[1] = 2

\* C22: within a call of getDetailedRecipes, getRecipeInformation is called
\* for an id only if the batch lookup of the cache found no recipe for it; a
\* list of cache hits causes no call of getRecipeInformation; an empty list
\* and an argument that is no list cause no call at all and return []
C22_FetchOnlyMisses ==
    \A c \in Procs :
        op[c] = "detail" =>
            /\ \A i \in Ids :
                  stat[c].info[i] > 0 => req[c].lookup # "none" /\ i \notin req[c].found
            /\ req[c].lookup # "none" /\ (\A k \in 1..Len(ids[c]) : ids[c][k] \in req[c].found)
                  => stat[c].info = NoCalls
            /\ ids[c] = <<>> =>
                  /\ stat[c] = NoStat
                  /\ out[c] = Returned(<<>>)

\* of the two ids asked, the lookup found recipe 1 and not recipe 2: only
\* recipe 2 was fetched, and both are returned
C22_Witness ==
    \E c \in Procs :
        /\ op[c] = "detail" /\ out[c].t = "returned"
        /\ ids[c] = <<1, 2>>
        /\ req[c].lookup = "ok" /\ req[c].found = {1}
        /\ stat[c].info = [NoCalls EXCEPT ![2] = 1]
        /\ RecipeIds(out[c].recipes) = <<1, 2>>

\* no branch of the request has written to the store since its batch lookup
\* was answered: the rows are those the lookup was answered from
UnwrittenSinceLookup(c) ==
    /\ req[c].lookup # "none"
    /\ \A k \in 1..Len(fetch[c]) : fetch[c][k].pc # "done"
    /\ \A j \in 1..Len(enrich[c]) : enrich[c][j].pc # "done" \/ ~enrich[c][j].wrote

Requested(c) == {ids[c][k] : k \in 1..Len(ids[c])}

\* the returned recipe is the one the row of its id holds
AsPersisted(recipe) ==
    /\ cache[recipe.id] # NoRow
    /\ cache[recipe.id].raw_data = JsonRoundTrip(recipe)

\* C23 as stated: once a row of id X was written, a later call of
\* getDetailedRecipes whose list contains X calls no getRecipeInformation for
\* X and returns the recipe as it was persisted
C23_ReadThrough ==
    \A c \in Procs :
        op[c] = "detail" =>
            /\ UnwrittenSinceLookup(c) =>
                  \A i \in Requested(c) : cache[i] # NoRow => stat[c].info[i] = 0
            /\ out[c].t = "returned" =>
                  \A k \in 1..Len(out[c].recipes) :
                      stat[c].info[out[c].recipes[k].id] = 0 => AsPersisted(out[c].recipes[k])

\* C23, amended: a later call whose batch lookup succeeds finds every
\* requested id that has a row, calls no getRecipeInformation for it, and
\* returns for it the recipe of the row, with the price breakdown merged when
\* the enrichment fetched one
C23_ReadThroughWhenLookupSucceeds ==
    \A c \in Procs :
        op[c] = "detail" /\ req[c].lookup = "ok" =>
            /\ UnwrittenSinceLookup(c) =>
                  req[c].found = {i \in Requested(c) : cache[i] # NoRow}
            /\ \A i \in req[c].found : stat[c].info[i] = 0
            /\ out[c].t = "returned" =>
                  /\ \A i \in req[c].found : \E k \in 1..Len(out[c].recipes) :
                        out[c].recipes[k].id = i
                  /\ \A k \in 1..Len(out[c].recipes) :
                        out[c].recipes[k].id \in req[c].found =>
                            LET row == cache[out[c].recipes[k].id].raw_data
                            IN  out[c].recipes[k]
                                    \in {row, applyPriceBreakdownToRecipe(row, Breakdown)}

\* recipe 1 had a row with cost data when it was asked again: it is returned
\* as the row holds it, and getRecipeInformation was not called
C23_Witness ==
    \E c \in Procs :
        /\ op[c] = "detail" /\ out[c].t = "returned"
        /\ req[c].lookup = "ok" /\ req[c].found = {1}
        /\ ids[c] = <<1>>
        /\ stat[c].info = NoCalls /\ stat[c].price = NoCalls
        /\ Len(out[c].recipes) = 1
        /\ out[c].recipes[1] = cache[1].raw_data
        /\ HasNumericCost(out[c].recipes[1])

\* the fetches and enrichments of request c that have issued their upsert of id i
IssuedUpserts(c, i) ==
    Cardinality({k \in 1..Len(fetch[c]) :
                    /\ fetch[c][k].id = i
                    /\ \/ fetch[c][k].pc = "save"
                       \/ fetch[c][k].pc = "done" /\ fetch[c][k].rec # NoRecipe})
    + Cardinality({j \in 1..Len(enrich[c]) : enrich[c][j].ref = i /\ enrich[c][j].applied})

\* every fetch that brought a recipe and every enrichment that merged a
\* breakdown has issued its upsert; a recipe without an id is not written;
\* every row is keyed by the id of its recipe, and no two rows are the same row
C24_UpsertsKeyedById ==
    /\ \A c \in Procs : \A i \in Ids :
          op[c] \in {"detail", "record"} => stat[c].upsert[i] = IssuedUpserts(c, i)
    /\ \A c \in Procs :
          op[c] = "save" /\ (req[c].arg = NoRecipe \/ req[c].arg.id = 0) =>
              /\ stat[c].upsert = NoCalls
              /\ pc[c] = "done"
              /\ out[c] = Saved(NoRecipe)
    /\ \A i \in Ids :
          cache[i] # NoRow =>
              /\ cache[i].spoonacular_id = i
              /\ cache[i].raw_data.id = i
              /\ \A j \in Ids \ {i} :
                    cache[j] # NoRow => cache[j].recipe_id # cache[i].recipe_id

\* a step keeps every row there is, and changes the row of an id only when
\* a running operation has issued an upsert of that id
C24_RowsOnlyGrow ==
    \A i \in Ids :
        /\ cache[i] # NoRow => cache'[i] # NoRow /\ cache'[i].recipe_id = cache[i].recipe_id
        /\ cache'[i] # cache[i] => \E c \in Procs : stat[c].upsert[i] > 0

\* C24: every fetch and every cost enrichment that succeeded for a recipe
\* with an id issues an upsert keyed by that id before the recipe is
\* returned, a recipe without an id is never written, and no row is ever
\* deleted: the cached ids only grow, one row per id
C24_UpsertOnlyStore == [] C24_UpsertsKeyedById /\ [][C24_RowsOnlyGrow]_vars

\* a request returned recipe 1, fetched and then enriched, after two upserts
\* keyed 1, while the row of recipe 2 written earlier is still there
C24_Witness ==
    \E c \in Procs :
        /\ op[c] = "detail" /\ out[c].t = "returned"
        /\ ids[c] = <<1>>
        /\ stat[c].upsert = [NoCalls EXCEPT ![1] = 2]
        /\ Len(fetch[c]) = 1 /\ enrich[c][1].applied
        /\ cache[1] # NoRow /\ cache[1].recipe_id = 2
        /\ cache[2] # NoRow /\ cache[2].recipe_id = 1

\* C26: no two concurrently running branches of a call of getDetailedRecipes
\* hold the same in-memory recipe object: two cost enrichments that both go
\* on to getRecipePriceBreakdown, and so may both merge into their recipe,
\* never have the same recipe
C26_BranchesShareNoRecipe ==
    \A c \in Procs :
        op[c] = "detail" =>
            \A j, k \in 1..Len(enrich[c]) :
                j # k /\ enrich[c][j].called /\ enrich[c][k].called
                    => enrich[c][j].ref # enrich[c][k].ref

\* C27: in getDetailedRecipes no cost enrichment starts before every fetch of
\* a missing id has completed, and the result is returned only after every
\* cost enrichment has completed
C27_JoinBetweenFanOuts ==
    \A c \in Procs :
        op[c] = "detail" =>
            /\ enrich[c] # <<>> =>
                  \A i \in 1..Len(fetch[c]) : fetch[c][i].pc = "done"
            /\ out[c].t = "returned" =>
                  /\ \A i \in 1..Len(fetch[c]) : fetch[c][i].pc = "done"
                  /\ \A j \in 1..Len(enrich[c]) : enrich[c][j].pc = "done"

\* two missing ids were fetched, both without cost data, and both were
\* enriched before the request returned
C27_Witness ==
    \E c \in Procs :
        /\ op[c] = "detail" /\ out[c].t = "returned"
        /\ ids[c] = <<1, 2>>
        /\ Len(fetch[c]) = 2 /\ Len(enrich[c]) = 2
        /\ enrich[c][1].called /\ enrich[c][2].called
        /\ Len(out[c].recipes) = 2

---------------------------------------------------------------------------
(* SpecSearch: the search handler over the detail resolver *)

SearchStep(c) ==
    \/ \E body \in SearchBodies : StartSearch(c, body)
    \/ SearchResp(c)
    \/ LookupResp(c)
    \/ \E i \in 1..MaxIds : FetchInfoResp(c, i)
    \/ \E i \in 1..MaxIds : FetchPriceResp(c, i)
    \/ \E i \in 1..MaxIds : FetchSaveResp(c, i)
    \/ FetchJoin(c)
    \/ \E j \in 1..MaxIds : EnrichPriceResp(c, j)
    \/ \E j \in 1..MaxIds : EnrichSaveResp(c, j)
    \/ EnrichJoin(c)
    \/ PrefsResp(c)
    \/ FavoritesResp(c)
    \/ FavoritesCatchResp(c)
    \/ Finish(c)

SearchNext == SearchStep("p")

SpecSearch == Init /\ [][SearchNext]_vars

(* Properties of handleRecipeSearch *)

\* C8: a search for `number` recipes that began while the cache held at least
\* `number` recipes (no filter is given, so every cached recipe matches)
\* issues no call to the external API and renders exactly `number` recipes
C8_CachedSearchStaysLocal ==
    \A c \in Procs :
        op[c] = "search" /\ out[c].t = "rendered" /\ req[c].cached >= req[c].number =>
            /\ stat[c].search = 0
            /\ stat[c].info = NoCalls
            /\ stat[c].price = NoCalls
            /\ out[c].results.t = "array"
            /\ Len(out[c].results.items) = req[c].number

\* the ids of s without the repetitions, in the order of their first occurrence
FirstOccurrences(s) ==
    LET first == {k \in 1..Len(s) : \A j \in 1..(k - 1) : s[j] # s[k]}
        flags == [k \in 1..Len(s) |-> IF k \in first THEN s[k] ELSE 0]
    IN  SelectSeq(flags, LAMBDA i : i # 0)

\* C9: the recipes a search renders have pairwise distinct ids and, unless
\* the preferences re-ranked them, come in the order in which their ids first
\* occur among the hits
C9_SearchResultDistinctIds ==
    \A c \in Procs :
        op[c] = "search" /\ out[c].t = "rendered" /\ out[c].results.t = "array" =>
            LET got == RecipeIds(out[c].results.items)
            IN  /\ \A j, k \in 1..Len(got) : j # k => got[j] # got[k]
                /\ ~req[c].ranked => IsSubsequence(got, FirstOccurrences(req[c].hits))

---------------------------------------------------------------------------
(* SpecNorm: normalizeApiRecipe applied to any argument, then to its result *)

RawPrices ==
    {Undefined, JsNull, NaN, BadStr, Num(0), Num(Dec(1, 20)), Num(Dec(163, 54)),
     NumStr(Dec(163, 54)), Num(Dec(10000, 0))}

NonObjects ==
    {Undefined, JsNull, Num(0), Num(Dec(5, 0)),
     [t |-> "string", v |-> 0], [t |-> "string", v |-> 1],
     [t |-> "boolean", v |-> 0], [t |-> "boolean", v |-> 1]}

RawObjects ==
    {[EmptyObject EXCEPT !.id = i, !.spoonacular_id = s, !.pricePerServing = p] :
        i \in {0, 1, 2}, s \in {0, 7}, p \in RawPrices}

NormInit ==
    /\ CostIdle
    /\ CoreInit
    /\ FilterIdle
    /\ RegisterIdle
    /\ GroceryIdle
    /\ SortIdle
    /\ nArg \in NonObjects \cup RawObjects
    /\ nPc = "start"
    /\ nOnce = NoRecipe
    /\ nTwice = NoRecipe

\* a call without an argument passes undefined; a result of null is passed on as null
AsArgument(r) == IF r = NoRecipe THEN JsNull ELSE r

NormalizeOnce ==
    /\ nPc = "start"
    /\ nOnce' = normalizeApiRecipe(nArg)
    /\ nPc' = "once"
    /\ UNCHANGED <<nArg, nTwice, coreVars, groceryVars, sortVars, registerVars, filterVars, costVars>>

NormalizeAgain ==
    /\ nPc = "once"
    /\ nTwice' = normalizeApiRecipe(AsArgument(nOnce))
    /\ nPc' = "twice"
    /\ UNCHANGED <<nArg, nOnce, coreVars, groceryVars, sortVars, registerVars, filterVars, costVars>>

NormNext == NormalizeOnce \/ NormalizeAgain

SpecNorm == NormInit /\ [][NormNext]_vars

(* Properties of normalizeApiRecipe *)

\* C6: normalizeApiRecipe is idempotent on price: a second normalization
\* leaves pricePerServing as the first one made it
C6_NormalizeIdempotentOnPrice ==
    nPc = "twice" /\ nOnce # NoRecipe =>
        nTwice # NoRecipe /\ nTwice.pricePerServing = nOnce.pricePerServing

\* C7 as claimed: null for every argument that is not an object, the absent
\* one included, and a recipe only for objects
C7_NullForEveryNonObject ==
    nPc # "start" => (nOnce = NoRecipe <=> nArg.t # "object")

\* C7 as amended: null for null and for every number, string and boolean; an
\* absent (undefined) argument takes the default {} and yields a recipe
\* without id whose pricePerServing is null; every object yields a recipe
C7_NullForNonObjectsButAbsent ==
    nPc # "start" =>
        /\ nOnce = NoRecipe <=> nArg.t \notin {"object", "undefined"}
        /\ nArg.t = "undefined" =>
               nOnce = [EmptyObject EXCEPT !.pricePerServing = JsNull]
        /\ nArg.t = "object" => nOnce.t = "object"

\* normalizeApiRecipe was called without an argument and returned a recipe
C7_Witness ==
    nPc = "once" /\ nArg.t = "undefined" /\ nOnce # NoRecipe /\ nOnce.id = 0

---------------------------------------------------------------------------
(* SpecGrocery: buildGroceryList applied to a list of recipes *)

\* the longest list of recipes handed to buildGroceryList
MaxRecipes == 3

GroceryItem(name, original, amount, aisle, cost) ==
    [Ingredient(name, original) EXCEPT
        !.amount = amount, !.aisle = aisle, !.estimatedCost = cost]

Titled(title, ingredients) ==
    [EmptyObject EXCEPT !.id = 1, !.title = title, !.extendedIngredients = ingredients]

\* "Onion" 2 of aisle P at 150, "Salt" 0.5 of no aisle without a cost
Soup ==
    Titled("Soup",
           Ingredients(<<GroceryItem(<<"O", "n", "i", "o", "n">>, <<"x">>, Num(Dec(2, 0)),
                                     <<"P">>, Num(Dec(150, 0))),
                         GroceryItem(<<"S", "a", "l", "t">>, <<>>, Num(Dec(0, 50)),
                                     <<>>, NaN)>>))

\* " onion" 3 of aisle b without a cost, "Oil" 1 of aisle B at 1234.40
Stew ==
    Titled("Stew",
           Ingredients(<<GroceryItem(<<" ", "o", "n", "i", "o", "n">>, <<>>, Num(Dec(3, 0)),
                                     <<"b">>, Undefined),
                         GroceryItem(<<"O", "i", "l">>, <<>>, Num(Dec(1, 0)),
                                     <<"B">>, Num(Dec(1234, 40)))>>))

\* no name but the original "ONION " without an amount at 25, a blank name
\* that hides its original, "SALT" twice
Mash ==
    Titled("Mash",
           Ingredients(<<GroceryItem(<<>>, <<"O", "N", "I", "O", "N", " ">>, Undefined,
                                     <<"P">>, Num(Dec(25, 0))),
                         GroceryItem(<<" ">>, <<"O", "i", "l">>, Num(Dec(9, 0)),
                                     <<"B">>, Num(Dec(100, 0))),
                         GroceryItem(<<"S", "A", "L", "T">>, <<>>, Num(Dec(1, 0)),
                                     <<"B">>, Num(Dec(10, 0))),
                         GroceryItem(<<"s", "a", "l", "t", " ">>, <<>>, Num(Dec(1, 25)),
                                     Unknown, Num(Dec(10, 60)))>>))

GroceryRecipes ==
    {Soup, Stew, Mash, NoRecipe, Titled("Bare", NoIngredients),
     Titled("Void", Ingredients(<<>>))}

GroceryArgs ==
    {[t |-> "undefined", items |-> <<>>]}
    \cup {ListArg(l) : l \in UNION {[1..n -> GroceryRecipes] : n \in 0..MaxRecipes}}

GroceryInit ==
    /\ CostIdle
    /\ CoreInit
    /\ FilterIdle
    /\ RegisterIdle
    /\ NormIdle
    /\ SortIdle
    /\ gArg \in GroceryArgs
    /\ gPc = "start"
    /\ gOut = NoList

BuildGroceryList ==
    /\ gPc = "start"
    /\ gOut' = buildGroceryList(gArg)
    /\ gPc' = "built"
    /\ UNCHANGED <<gArg, coreVars, normVars, sortVars, registerVars, filterVars, costVars>>

GroceryNext == BuildGroceryList

SpecGrocery == GroceryInit /\ [][GroceryNext]_vars

(* Properties of buildGroceryList *)

\* every ingredient occurrence of the recipes, in order, with the title of its recipe
RECURSIVE Occurrences(_)
Occurrences(recipes) ==
    IF recipes = <<>>
    THEN <<>>
    ELSE LET recipe == Head(recipes)
             own == IF recipe = NoRecipe \/ recipe.extendedIngredients.t # "array"
                    THEN <<>>
                    ELSE [k \in 1..Len(recipe.extendedIngredients.items) |->
                             [ingredient |-> recipe.extendedIngredients.items[k],
                              title |-> recipe.title]]
         IN  own \o Occurrences(Tail(recipes))

\* the lowercased, trimmed resolved name of an ingredient
NameKey(ingredient) ==
    ToLowerCase(Trim(IF ingredient.name # <<>> THEN ingredient.name
                     ELSE ingredient.original))

\* the amount of an occurrence, nothing for an absent one
AmountOf(ingredient) == IF ingredient.amount.t = "number" THEN ingredient.amount.v ELSE 0

RECURSIVE SumOf(_)
SumOf(s) == IF s = <<>> THEN 0 ELSE Head(s) + SumOf(Tail(s))

\* C10: buildGroceryList yields exactly one entry per distinct non-empty
\* lowercased-trimmed resolved name; the amount of the entry is the sum of the
\* amounts of the occurrences of that name, and its recipes list holds the
\* title of every occurrence, in order
C10_OneEntryPerNameSummed ==
    gPc = "built" =>
        LET occ == Occurrences(IF gArg.t = "undefined" THEN <<>> ELSE gArg.items)
            named == SelectSeq(occ, LAMBDA o : NameKey(o.ingredient) # <<>>)
            list == gOut.groceryList
        IN  /\ {list[k].key : k \in 1..Len(list)}
                   = {NameKey(named[k].ingredient) : k \in 1..Len(named)}
            /\ \A j, k \in 1..Len(list) : j # k => list[j].key # list[k].key
            /\ \A k \in 1..Len(list) :
                  LET same == SelectSeq(named,
                                        LAMBDA o : NameKey(o.ingredient) = list[k].key)
                  IN  /\ list[k].amount
                             = SumOf([i \in 1..Len(same) |-> AmountOf(same[i].ingredient)])
                      /\ list[k].recipes = [i \in 1..Len(same) |-> same[i].title]

\* "Onion" with amount 2 in one recipe and " onion" with amount 3 in another
\* made one entry of amount 5 whose recipes list has the two titles
C10_Witness ==
    /\ gPc = "built"
    /\ gArg = ListArg(<<Soup, Stew>>)
    /\ \E k \in 1..Len(gOut.groceryList) :
          /\ gOut.groceryList[k].key = <<"o", "n", "i", "o", "n">>
          /\ gOut.groceryList[k].amount = Dec(5, 0)
          /\ gOut.groceryList[k].recipes = <<"Soup", "Stew">>

\* the named occurrences of the argument of buildGroceryList
NamedOccurrences ==
    SelectSeq(Occurrences(IF gArg.t = "undefined" THEN <<>> ELSE gArg.items),
              LAMBDA o : NameKey(o.ingredient) # <<>>)

\* the position at which a name is first seen among the occurrences
FirstSeen(key) ==
    LET at == {k \in 1..Len(NamedOccurrences) : NameKey(NamedOccurrences[k].ingredient) = key}
    IN  CHOOSE k \in at : \A j \in at : k <= j

\* C11: groceryList is ascending by aisle name, entries of the same aisle are in
\* the order in which their names were first seen, and groupedByAisle holds
\* every entry in exactly one bucket, that of its aisle, each bucket in the
\* relative order of groceryList
C11_SortedByAisleAndGrouped ==
    gPc = "built" =>
        LET list == gOut.groceryList
            grouped == gOut.groupedByAisle
        IN  /\ \A j, k \in 1..Len(list) :
                  j < k =>
                      /\ ~StrLess(list[k].aisle, list[j].aisle)
                      /\ list[j].aisle = list[k].aisle
                             => FirstSeen(list[j].key) < FirstSeen(list[k].key)
            /\ \A k \in 1..Len(list) :
                  /\ list[k].aisle \in DOMAIN grouped
                  /\ \A a \in DOMAIN grouped :
                        Cardinality({i \in 1..Len(grouped[a]) : grouped[a][i] = list[k]})
                            = IF a = list[k].aisle THEN 1 ELSE 0
            /\ \A a \in DOMAIN grouped :
                  /\ grouped[a] # <<>>
                  /\ IsSubsequence(grouped[a], list)
                  /\ \A i \in 1..Len(grouped[a]) : grouped[a][i].aisle = a

\* two entries of aisle B, "oil" seen before "salt", ahead of one of aisle b
C11_Witness ==
    /\ gPc = "built"
    /\ gArg = ListArg(<<Stew, Mash>>)
    /\ Len(gOut.groceryList) = 3
    /\ gOut.groceryList[1].key = <<"o", "i", "l">>
    /\ gOut.groceryList[2].key = <<"s", "a", "l", "t">>
    /\ gOut.groceryList[1].aisle = gOut.groceryList[2].aisle
    /\ gOut.groceryList[3].aisle = <<"b">>
    /\ Len(gOut.groupedByAisle[<<"B">>]) = 2

\* estimatedCost.value / 100 of an occurrence, 0 for a missing value
CostOf(ingredient) ==
    IF ingredient.estimatedCost.t = "number" THEN ingredient.estimatedCost.v \div 100 ELSE 0

\* the value is a whole number of minor units, or is missing
WholeMinorUnits(ingredient) ==
    ingredient.estimatedCost.t = "number" => ingredient.estimatedCost.v % Scale = 0

\* C12: totalEstimatedCost is the sum, over every occurrence with a non-empty
\* resolved name, of estimatedCost.value / 100 (0 for a missing value), rendered
\* to two decimals, however the occurrences were merged; when every value is a
\* whole number of minor units it is that sum exactly and equals the sum of the
\* entries' estimatedCost
C12_TotalIsSumOfOccurrences ==
    gPc = "built" =>
        LET occ == NamedOccurrences
            sum == SumOf([k \in 1..Len(occ) |-> CostOf(occ[k].ingredient)])
            list == gOut.groceryList
        IN  /\ gOut.totalEstimatedCost = ToFixed2(sum)
            /\ (\A k \in 1..Len(occ) : WholeMinorUnits(occ[k].ingredient)) =>
                   /\ gOut.totalEstimatedCost = sum
                   /\ gOut.totalEstimatedCost
                          = SumOf([k \in 1..Len(list) |-> list[k].estimatedCost])

\* two occurrences of "Onion" at 150 minor units merged into one entry of 3.00,
\* next to "Salt" without a cost: the total is 3.00
C12_Witness ==
    /\ gPc = "built"
    /\ gArg = ListArg(<<Soup, Soup>>)
    /\ Len(gOut.groceryList) = 2
    /\ gOut.totalEstimatedCost = Dec(3, 0)
    /\ \E k \in 1..Len(gOut.groceryList) :
          /\ gOut.groceryList[k].estimatedCost = Dec(3, 0)
          /\ Len(gOut.groceryList[k].recipes) = 2

---------------------------------------------------------------------------
(* SpecSort: sortRecipesByPreferences applied to a list and to preferences *)

\* the longest list handed to sortRecipesByPreferences
MaxSorted == 3

Featured(id, price, time, calories, health, likes) ==
    [EmptyObject EXCEPT
        !.id = id, !.pricePerServing = price, !.readyInMinutes = time,
        !.calories = calories, !.healthScore = health, !.aggregateLikes = likes]

\* recipes with a price, with the price 0, without a price, and with ties
SortableRecipes ==
    {Featured(1, Num(Dec(1, 64)), Num(Dec(45, 0)), Num(Dec(500, 0)), Num(Dec(10, 0)),
              Undefined),
     Featured(2, JsNull, Num(Dec(20, 0)), Undefined, Undefined, Num(Dec(7, 0))),
     Featured(3, Num(0), Undefined, Num(0), Num(0), Num(0)),
     Featured(4, Num(Dec(0, 50)), Num(Dec(45, 0)), Num(Dec(500, 0)), Num(Dec(10, 0)),
              Num(Dec(7, 0))),
     Featured(5, Num(Dec(1, 64)), Num(Dec(30, 0)), Num(Dec(120, 0)), Num(Dec(80, 0)),
              Num(Dec(3, 0)))}

SortableLists ==
    {[t |-> "undefined", items |-> <<>>], [t |-> "null", items |-> <<>>]}
    \cup {ListArg(l) : l \in UNION {[1..n -> SortableRecipes] : n \in 0..MaxSorted}}

SortPreferences ==
    {NoPreferences}
    \cup {Preferences(k, o, f) :
             k \in {"", "price", "time", "calories", "health", "popularity", "relevance"},
             o \in {"", "asc", "desc"},
             f \in {NoFactors, Factors(2, 0, 1, 1)}}

SortInit ==
    /\ CostIdle
    /\ CoreInit
    /\ FilterIdle
    /\ RegisterIdle
    /\ NormIdle
    /\ GroceryIdle
    /\ sArg \in [recipes : SortableLists, preferences : SortPreferences]
    /\ sMem = [recipes |-> sArg.recipes, sorted |-> NoList]
    /\ sOut = NoOut

ArrayRef(name) == [t |-> "ref", ref |-> name]

\* mutant: sort is applied to the argument, not to the copy
SortedArray_InPlace == "recipes"

\* sorted.sort(...): the array that is sorted in place
SortedArray == "sorted"

\* the early returns hand back the argument; otherwise the argument is copied
\* to sorted, which is sorted in place and returned
SortRecipesByPreferences ==
    /\ sOut = NoOut
    /\ LET recipes == sMem.recipes
           preferences == sArg.preferences
           copied == [sMem EXCEPT !.sorted = recipes]
       IN  IF recipes.t # "array" \/ recipes.items = <<>> \/ preferences = NoPreferences
           THEN /\ sOut' = ArrayRef("recipes")
                /\ sMem' = sMem
           ELSE /\ sMem' = [copied EXCEPT
                               ![SortedArray].items =
                                   StableSort(copied[SortedArray].items, preferences)]
                /\ sOut' = ArrayRef("sorted")
    /\ UNCHANGED <<sArg, coreVars, normVars, groceryVars, registerVars, filterVars, costVars>>

SortNext == SortRecipesByPreferences

SpecSort == SortInit /\ [][SortNext]_vars

(* Properties of sortRecipesByPreferences *)

HasPrice(recipe) == recipe.pricePerServing.t = "number"

\* C13: with sort_by "price" and sort_order "asc" the returned list has
\* non-decreasing pricePerServing over the recipes that have a price, and no
\* recipe without a price comes before a recipe that has one
C13_PriceAscendingMissingLast ==
    sOut # NoOut /\ sArg.recipes.t = "array" /\ sArg.preferences # NoPreferences
      /\ sArg.preferences.sort_by = "price" /\ sArg.preferences.sort_order = "asc" =>
        LET result == sMem[sOut.ref].items
        IN  \A j, k \in 1..Len(result) :
                j < k =>
                    /\ HasPrice(result[j]) /\ HasPrice(result[k])
                           => result[j].pricePerServing.v <= result[k].pricePerServing.v
                    /\ ~(~HasPrice(result[j]) /\ HasPrice(result[k]))

\* how often x occurs in s
CountIn(x, s) == Cardinality({k \in 1..Len(s) : s[k] = x})

\* C14: the list handed to sortRecipesByPreferences keeps its order and its
\* contents; an absent or empty list, or absent preferences, give back the
\* argument itself; otherwise the result is another array, a permutation of
\* the argument
C14_InputNotMutated ==
    sOut # NoOut =>
        /\ sMem.recipes = sArg.recipes
        /\ IF sArg.recipes.t # "array" \/ sArg.recipes.items = <<>>
                \/ sArg.preferences = NoPreferences
           THEN sOut.ref = "recipes"
           ELSE /\ sOut.ref = "sorted"
                /\ Len(sMem.sorted.items) = Len(sArg.recipes.items)
                /\ \A r \in SortableRecipes :
                      CountIn(r, sMem.sorted.items) = CountIn(r, sArg.recipes.items)

\* a list whose order the sort changed: the result differs from the argument,
\* which is as it was
C14_Witness ==
    /\ sOut # NoOut
    /\ sOut.ref = "sorted"
    /\ Len(sArg.recipes.items) = 3
    /\ sMem.sorted.items # sArg.recipes.items
    /\ sMem.recipes = sArg.recipes

---------------------------------------------------------------------------
(* SpecRegister: POST /register of the application that the route tests load *)

\* whether ch is matched by [^@\s]
LocalChar(ch) == ch # "@" /\ ch # Space

\* EMAIL_REGEX.test(s): /^[^@\s]+@[^@\s]+\.[^@\s]+$/
EmailRegexTest(s) ==
    /\ \A k \in 1..Len(s) : s[k] # Space
    /\ Cardinality({k \in 1..Len(s) : s[k] = "@"}) = 1
    /\ LET at == CHOOSE k \in 1..Len(s) : s[k] = "@"
       IN  /\ at > 1
           /\ \E dot \in (at + 2)..(Len(s) - 1) : s[dot] = "."

\* password.length < 6
MinPasswordLength == 6

\* bcrypt.hash(password, 10): a hash, not the password
Hash(password) == [hash |-> password]

Page(message) == [status |-> 200, location |-> "", message |-> message]
Redirect(location) == [status |-> 302, location |-> location, message |-> ""]

\* mutant: the redirect of the older index.js
RegisteredLocation_Legacy == "/login"

\* res.redirect('/login?registered=1')
RegisteredLocation == "/login?registered=1"

\* mutant: the username is not tested
UsernameMissing_Never(rawUsername) == FALSE

\* !rawUsername
UsernameMissing(rawUsername) == rawUsername = <<>>

\* req.body: an absent field is the empty string, which || '' makes of it
RegisterUsernames == {<<>>, <<" ">>, <<"b", "o">>, <<" ", "B", "o", " ">>, <<"a", "l">>}
RegisterEmails ==
    {<<>>, <<"a", "@", "b", ".", "c">>, <<" ", "A", "@", "b", ".", "c">>,
     <<"d", "@", "b", ".", "c">>, <<"a", "@", "b">>, <<"a", "@", ".", "c">>,
     <<"a", " ", "@", "b", ".", "c">>}
RegisterPasswords ==
    {<<>>, <<"a", "b", "c">>, <<"s", "e", "c", "r", "e", "t">>,
     <<"s", "e", "c", "r", "e", "t", "1">>}

RegisterBodies ==
    [username : RegisterUsernames, email : RegisterEmails, password : RegisterPasswords]

\* SELECT username, email FROM users WHERE username = $1 OR email = $2
ExistingUsers(table, username, email) ==
    {u \in table : u.username = username \/ u.email = email}

\* the validations; when they pass the SELECT is issued
StartRegister(body) ==
    /\ rPc \in {"idle", "done"}
    /\ rReq' = [body |-> body, before |-> users, dbFailed |-> FALSE]
    /\ LET rawUsername == Trim(body.username)
           rawEmail == Trim(body.email)
           password == body.password
       IN  IF UsernameMissing(rawUsername)
           THEN /\ rOut' = Page("Please enter a valid username.")
                /\ rPc' = "done"
           ELSE IF ~EmailRegexTest(rawEmail)
           THEN /\ rOut' = Page("Please enter a valid email address.")
                /\ rPc' = "done"
           ELSE IF Len(password) < MinPasswordLength
           THEN /\ rOut' = Page("Password must be at least 6 characters long.")
                /\ rPc' = "done"
           ELSE /\ rOut' = NoResponse
                /\ rPc' = "select"
    /\ UNCHANGED <<users, coreVars, normVars, groceryVars, sortVars, filterVars, costVars>>

\* db.oneOrNone answers: a conflict is reported, or the password is hashed
\* and the INSERT is issued; a failure is caught
RegisterSelectResp ==
    /\ rPc = "select"
    /\ \E ok \in BOOLEAN :
          LET username == ToLowerCase(Trim(rReq.body.username))
              email == ToLowerCase(Trim(rReq.body.email))
              existing == ExistingUsers(users, username, email)
          IN  IF ~ok
              THEN /\ rOut' = Page("Registration failed. Please try again later.")
                   /\ rPc' = "done"
                   /\ rReq' = [rReq EXCEPT !.dbFailed = TRUE]
              ELSE IF existing # {}
              THEN /\ rOut' =
                          IF \E u \in existing : u.username = username
                          THEN Page("Username is already taken. Please choose another one.")
                          ELSE Page("Email is already in use. Try logging in or use a different email.")
                   /\ rPc' = "done"
                   /\ rReq' = rReq
              ELSE /\ rPc' = "insert"
                   /\ UNCHANGED <<rOut, rReq>>
    /\ UNCHANGED <<users, coreVars, normVars, groceryVars, sortVars, filterVars, costVars>>

\* db.none(INSERT ...) answers: the redirect, or the catch
RegisterInsertResp ==
    /\ rPc = "insert"
    /\ \E ok \in BOOLEAN :
          LET username == ToLowerCase(Trim(rReq.body.username))
              email == ToLowerCase(Trim(rReq.body.email))
              hash == Hash(rReq.body.password)
          IN  IF ok /\ \A u \in users : u.username # username
              THEN /\ users' = users \cup
                                   {[username |-> username, email |-> email,
                                     password |-> hash]}
                   /\ rOut' = Redirect(RegisteredLocation)
                   /\ rReq' = rReq
              ELSE /\ rOut' = Page("Registration failed. Please try again later.")
                   /\ rReq' = [rReq EXCEPT !.dbFailed = TRUE]
                   /\ users' = users
    /\ rPc' = "done"
    /\ UNCHANGED <<coreVars, normVars, groceryVars, sortVars, filterVars, costVars>>

RegisterNext ==
    \/ \E body \in RegisterBodies : StartRegister(body)
    \/ RegisterSelectResp
    \/ RegisterInsertResp

SpecRegister == Init /\ [][RegisterNext]_vars

(* Properties of POST /register *)

\* no user of the table has the lowercased, trimmed username or email
Collides(body, table) ==
    \E u \in table :
        \/ u.username = ToLowerCase(Trim(body.username))
        \/ u.email = ToLowerCase(Trim(body.email))

NewUser(body) ==
    [username |-> ToLowerCase(Trim(body.username)),
     email |-> ToLowerCase(Trim(body.email)),
     password |-> Hash(body.password)]

C17_MissingUsernameNoWrite ==
    rPc = "done" /\ Trim(rReq.body.username) = <<>> =>
        /\ rOut = Page("Please enter a valid username.")
        /\ users = rReq.before

\* a blank username with an otherwise valid request, against a table with a user
C17_Witness ==
    /\ rPc = "done"
    /\ rReq.body = [username |-> <<" ">>,
                    email |-> <<"d", "@", "b", ".", "c">>,
                    password |-> <<"s", "e", "c", "r", "e", "t", "1">>]
    /\ users # {}
    /\ rOut.status = 200

---------------------------------------------------------------------------
(* SpecFilter: the Filter Engine, as specified (its code is not in src)    *)

\* the flag a diet maps to, "" when it maps to none
DietFlag(diet) ==
    CASE diet = "vegetarian" -> "vegetarian"
      [] diet = "vegan" -> "vegan"
      [] diet = "gluten free" -> "glutenFree"
      [] diet = "dairy free" -> "dairyFree"
      [] diet = "low fodmap" -> "lowFodmap"
      [] diet = "whole30" -> "whole30"
      [] diet = "ketogenic" -> "ketogenic"
      [] OTHER -> ""

\* the diet label a diet maps to: itself but for paleo
DietLabel(diet) == IF diet = "paleo" THEN "paleolithic" ELSE diet

\* the intolerance with its whitespace removed and the suffix "Free"
FreeFlag(intolerance) ==
    CASE intolerance = "gluten" -> "glutenFree"
      [] intolerance = "dairy" -> "dairyFree"
      [] intolerance = "tree nut" -> "treenutFree"
      [] OTHER -> ""

\* the diet label "<intolerance> free"
FreeLabel(intolerance) ==
    CASE intolerance = "gluten" -> "gluten free"
      [] intolerance = "dairy" -> "dairy free"
      [] intolerance = "tree nut" -> "tree nut free"
      [] OTHER -> ""

\* a flag of a recipe is "true", "false" or "absent"
PassesDiet(recipe, filters) ==
    filters.diet # "" =>
        \/ filters.diet \in recipe.diets
        \/ DietLabel(filters.diet) \in recipe.diets
        \/ DietFlag(filters.diet) # "" /\ recipe.flags[DietFlag(filters.diet)] = "true"

\* an exposed flag governs; otherwise the label passes, and so does no metadata
PassesIntolerances(recipe, filters) ==
    \A intolerance \in filters.intolerances :
        IF recipe.flags[FreeFlag(intolerance)] # "absent"
        THEN recipe.flags[FreeFlag(intolerance)] = "true"
        ELSE IF FreeLabel(intolerance) \in recipe.diets THEN TRUE ELSE TRUE

\* x within [lo, hi]; an unset bound does not bound, a missing x fails when a
\* bound is set
WithinBounds(x, lo, hi) ==
    lo.t = "number" \/ hi.t = "number" =>
        /\ x.t = "number"
        /\ lo.t = "number" => lo.v <= x.v
        /\ hi.t = "number" => x.v <= hi.v

PassesFilters(recipe, filters) ==
    /\ PassesDiet(recipe, filters)
    /\ PassesIntolerances(recipe, filters)
    /\ WithinBounds(recipe.readyInMinutes, Undefined, filters.maxReadyTime)
    /\ WithinBounds(recipe.pricePerServing, filters.minPrice, filters.maxPrice)
    /\ WithinBounds(recipe.calories, filters.minCalories, filters.maxCalories)

\* mutant: the first match is dropped
filter_SkipFirst(recipes, filters) ==
    LET matches == SelectSeq(recipes, LAMBDA r : PassesFilters(r, filters))
    IN  IF matches = <<>> THEN <<>> ELSE Tail(matches)

filter(recipes, filters) == SelectSeq(recipes, LAMBDA r : PassesFilters(r, filters))

\* the longest list handed to filter
MaxFiltered == 2

FlagNames ==
    {"vegetarian", "vegan", "glutenFree", "dairyFree", "lowFodmap", "whole30",
     "ketogenic", "treenutFree"}

NoFlags == [f \in FlagNames |-> "absent"]

Dish(id, diets, flags, time, price, calories) ==
    [id |-> id, diets |-> diets, flags |-> flags, readyInMinutes |-> time,
     pricePerServing |-> price, calories |-> calories]

FilterableRecipes ==
    {Dish(1, {}, [NoFlags EXCEPT !["vegetarian"] = "true", !["glutenFree"] = "false"],
          Num(Dec(20, 0)), Num(Dec(1, 64)), Num(Dec(300, 0))),
     Dish(2, {"paleolithic", "dairy free"}, [NoFlags EXCEPT !["vegetarian"] = "false"],
          Num(Dec(45, 0)), Num(Dec(2, 0)), Num(Dec(500, 0))),
     Dish(3, {"vegetarian"}, NoFlags, Undefined, JsNull, Undefined),
     Dish(4, {"whole30"}, [NoFlags EXCEPT !["glutenFree"] = "true", !["dairyFree"] = "false"],
          Num(Dec(30, 0)), Num(Dec(0, 50)), Num(Dec(400, 0))),
     Dish(5, {}, NoFlags, Num(Dec(10, 0)), Num(Dec(1, 0)), Num(Dec(100, 0)))}

FilterSets ==
    [diet : {"", "vegetarian", "paleo", "whole30", "pescetarian"},
     intolerances : {{}, {"gluten"}, {"dairy", "tree nut"}},
     maxReadyTime : {Undefined, Num(Dec(30, 0))},
     minPrice : {Undefined, Num(Dec(1, 0))},
     maxPrice : {Undefined, Num(Dec(2, 0))},
     minCalories : {Undefined},
     maxCalories : {Undefined, Num(Dec(400, 0))}]

FilterInit ==
    /\ CostIdle
    /\ CoreInit
    /\ NormIdle
    /\ GroceryIdle
    /\ SortIdle
    /\ RegisterIdle
    /\ fArg \in [recipes : UNION {[1..n -> FilterableRecipes] : n \in 0..MaxFiltered},
                 filters : FilterSets]
    /\ fPc = "start"
    /\ fOnce = <<>>
    /\ fTwice = <<>>

FilterOnce ==
    /\ fPc = "start"
    /\ fOnce' = filter(fArg.recipes, fArg.filters)
    /\ fPc' = "once"
    /\ UNCHANGED <<fArg, fTwice, coreVars, normVars, groceryVars, sortVars, registerVars, costVars>>

FilterAgain ==
    /\ fPc = "once"
    /\ fTwice' = filter(fOnce, fArg.filters)
    /\ fPc' = "twice"
    /\ UNCHANGED <<fArg, fOnce, coreVars, normVars, groceryVars, sortVars, registerVars, costVars>>

FilterNext == FilterOnce \/ FilterAgain

SpecFilter == FilterInit /\ [][FilterNext]_vars

(* Properties of the Filter Engine *)

\* C18: the Filter Engine is idempotent: filter(filter(R, F), F) = filter(R, F)
\* for every recipe list R and every filter set F
C18_FilterIdempotent ==
    fPc = "twice" => fTwice = fOnce

\* of two recipes one was kept and one was excluded, by a diet and a price bound
C18_Witness ==
    /\ fPc = "twice"
    /\ fArg.filters.diet = "vegetarian"
    /\ fArg.filters.maxPrice # Undefined
    /\ Len(fArg.recipes) = 2
    /\ Len(fOnce) = 1
    /\ fTwice = fOnce

---------------------------------------------------------------------------
(* SpecLive: one call of getDetailedRecipes, on a cache that holds recipe  *)
(* 1 without cost data.  Every call the request issues                     *)
(* to the store and to the API is answered in the end, with success or     *)
(* with failure, and the event loop runs every continuation that is ready: *)
(* the answers and the joins are weakly fair.                              *)

NoRows == [i \in Ids |-> NoRow]

LiveCaches == {upsertRecipe(NoRows, SavePayload(normalizeApiRecipe(RawRecipe(1))))}

LiveInit ==
    /\ cache \in LiveCaches
    /\ op = [c \in Procs |-> "idle"]
    /\ pc = [c \in Procs |-> "idle"]
    /\ ids = [c \in Procs |-> <<>>]
    /\ map = [c \in Procs |-> NoMap]
    /\ fetch = [c \in Procs |-> <<>>]
    /\ enrich = [c \in Procs |-> <<>>]
    /\ out = [c \in Procs |-> NoOut]
    /\ stat = [c \in Procs |-> NoStat]
    /\ req = [c \in Procs |-> NoReq]
    /\ NormIdle
    /\ GroceryIdle
    /\ SortIdle
    /\ RegisterIdle
    /\ FilterIdle
    /\ CostIdle

\* an answer of the store or of the API arrives, or a Promise.all is settled
Completes(c) ==
    \/ LookupResp(c)
    \/ \E i \in 1..MaxIds : FetchInfoResp(c, i)
    \/ \E i \in 1..MaxIds : FetchPriceResp(c, i)
    \/ \E i \in 1..MaxIds : FetchSaveResp(c, i)
    \/ FetchJoin(c)
    \/ \E j \in 1..MaxIds : EnrichPriceResp(c, j)
    \/ \E j \in 1..MaxIds : EnrichSaveResp(c, j)
    \/ EnrichJoin(c)

LiveNext ==
    \/ \E arg \in DetailArgs : StartDetailed("p", arg)
    \/ Completes("p")

SpecLive == LiveInit /\ [][LiveNext]_vars /\ WF_vars(Completes("p"))

\* a call the request has issued and that is not answered yet
Pending(c) ==
    \/ pc[c] = "lookup"
    \/ \E i \in 1..Len(fetch[c]) : fetch[c][i].pc \in {"info", "price", "save"}
    \/ \E j \in 1..Len(enrich[c]) : enrich[c][j].pc \in {"price", "save"}

\* C28: getDetailedRecipes returns in the end when every call it issues is
\* answered in the end, and as long as one of its calls is pending it has
\* returned nothing
C28_ReturnsOnceAllCallsComplete ==
    /\ \A c \in Procs : op[c] = "detail" ~> out[c].t = "returned"
    /\ [](\A c \in Procs : Pending(c) => out[c] = NoOut)

\* a request has returned after calls that failed: the batch lookup, the
\* fetch of recipe 2, and the price breakdown asked for recipe 1 twice
C28_Witness ==
    \E c \in Procs :
        /\ op[c] = "detail" /\ out[c].t = "returned"
        /\ ids[c] = <<1, 2>>
        /\ req[c].lookup = "failed"
        /\ fetch[c][2].rec = NoRecipe
        /\ stat[c].price[1] = 2
        /\ enrich[c][1].resp = "fail"
        /\ RecipeIds(out[c].recipes) = <<1>>

----------------------------------------------------------------------------
(* SpecRetry: one call of getDetailedRecipes, whose request keeps the ids  *)
(* whose price-breakdown fetch failed.                                     *)

RetryStep(c) ==
    \/ LookupResp(c)
    \/ \E i \in 1..MaxIds : FetchInfoResp(c, i)
    \/ \E i \in 1..MaxIds : FetchPriceRespNoted(c, i)
    \/ \E i \in 1..MaxIds : FetchSaveResp(c, i)
    \/ FetchJoin(c)
    \/ \E j \in 1..MaxIds : EnrichPriceResp(c, j)
    \/ \E j \in 1..MaxIds : EnrichSaveResp(c, j)
    \/ EnrichJoin(c)

RetryNext ==
    \/ \E arg \in DetailArgs : StartDetailed("p", arg)
    \/ RetryStep("p")

SpecRetry == LiveInit /\ [][RetryNext]_vars

\* getRecipeInformation is invoked once per occurrence of a missing id, and
\* the batch lookup once
C29_OneCallPerMissingId ==
    \A c \in Procs :
        op[c] = "detail" /\ req[c].lookup # "none" =>
            /\ stat[c].reads = 1
            /\ stat[c].info = AddCalls(NoCalls, SelectSeq(ids[c], LAMBDA i : i \notin req[c].found))
            /\ \A i \in Ids :
                   stat[c].info[i] = Cardinality({k \in 1..Len(fetch[c]) : fetch[c][k].id = i})

\* C29: no failed call is retried: within one getDetailedRecipes call,
\* getRecipeInformation is invoked exactly once per occurrence of a missing
\* id, the batch lookup once, and no second getRecipePriceBreakdown is issued
\* for a recipe whose price-breakdown fetch failed
C29_NoFailedCallRetried ==
    /\ C29_OneCallPerMissingId
    /\ \A c \in Procs :
           op[c] = "detail" =>
               \A j \in 1..Len(enrich[c]) :
                   enrich[c][j].called => enrich[c][j].ref \notin req[c].priceFailed

---------------------------------------------------------------------------
(* SpecConcurrent: two overlapping resolutions of the same external id.    *)
(* Each of the two requests runs one getDetailedRecipes([SharedId]) or one *)
(* ensureRecipeRecord(SharedId); their steps interleave freely and the     *)
(* store is the only state they share.                                     *)

SharedId == 1

ConcurrentStep(c) ==
    \/ StartDetailed(c, ListArg(<<SharedId>>))
    \/ LookupResp(c)
    \/ FetchInfoResp(c, 1)
    \/ FetchPriceResp(c, 1)
    \/ FetchSaveResp(c, 1)
    \/ FetchJoin(c)
    \/ EnrichPriceResp(c, 1)
    \/ EnrichSaveResp(c, 1)
    \/ EnrichJoin(c)
    \/ StartRecord(c, SharedId)
    \/ RecordFirstResp(c)
    \/ RecordFetched(c)
    \/ RecordSecondResp(c)

ConcurrentNext == \E c \in Procs : ConcurrentStep(c)

SpecConcurrent == Init /\ [][ConcurrentNext]_vars

\* the fields of the source record: the recipe without the cost data that
\* a price breakdown adds
SourceRecord(recipe) ==
    [recipe EXCEPT
        !.extendedIngredients =
            IF @.t = "array"
            THEN Ingredients([k \in 1..Len(@.items) |->
                     [@.items[k] EXCEPT !.estimatedCost = Undefined]])
            ELSE @,
        !.totalIngredientCost = Undefined,
        !.totalCostPerServing = Undefined,
        !.priceBreakdown = NoData]

\* an upsert over a row writes the same source record, and leaves a row
\* that has ingredient costs with its costs
C25_EquivalentPayloads ==
    \A i \in Ids :
        cache[i] # NoRow =>
            /\ SourceRecord(cache'[i].raw_data) = SourceRecord(cache[i].raw_data)
            /\ HasNumericCost(cache[i].raw_data) => HasNumericCost(cache'[i].raw_data)

\* C25: when two resolutions of the same id overlap, every upsert they issue
\* for it carries an equivalent payload, so that the stored row does not
\* depend on the interleaving, and a stored recipe with cost data is never
\* overwritten by a payload without
C25_LastWriteWinsIsHarmless == [][C25_EquivalentPayloads]_vars

---------------------------------------------------------------------------
(* SpecCost: the cost enricher on its own.  applyPriceBreakdownToRecipe is *)
(* applied to a recipe and a price breakdown, and ensureRecipeHasCostData  *)
(* is called on a recipe and then again on the recipe it returned.         *)

\* the longest ingredient list of a recipe handed to the cost enricher
MaxIngredients == 2

CostIngredients ==
    {Ingredient(<<"O", "n">>, <<"x">>),
     Ingredient(<<>>, <<"S", " ">>),
     Ingredient(<<"n">>, <<"s">>),
     [Ingredient(<<"q">>, <<>>) EXCEPT !.estimatedCost = Num(Dec(5, 0))]}

\* a normalized recipe with an id, with and without a list of ingredients
CostRecipes ==
    {NoRecipe, normalizeApiRecipe([RawRecipe(1) EXCEPT !.extendedIngredients = NoIngredients])}
    \cup {normalizeApiRecipe([RawRecipe(1) EXCEPT !.extendedIngredients = Ingredients(l)]) :
             l \in UNION {[1..n -> CostIngredients] : n \in 0..MaxIngredients}}

\* getRecipePriceBreakdown(id).data: the breakdown of the catalogue, one that
\* prices no ingredient, one without a list, one with a null price
CostPayloads ==
    {Breakdown,
     [Breakdown EXCEPT !.ingredients = Ingredients(<<>>)],
     [Breakdown EXCEPT !.ingredients = NoIngredients, !.totalCost = Undefined],
     [Breakdown EXCEPT !.ingredients = Ingredients(<<PricedItem(<<"x">>, JsNull)>>)]}

CostResponses(priceData) ==
    {[kind |-> "fail", data |-> NoData], [kind |-> "ok", data |-> NoData],
     [kind |-> "ok", data |-> priceData]}

CostInit ==
    /\ CoreInit
    /\ NormIdle
    /\ GroceryIdle
    /\ SortIdle
    /\ RegisterIdle
    /\ FilterIdle
    /\ eArg \in [recipe : CostRecipes, priceData : CostPayloads]
    /\ ePc = [call |-> "first", at |-> "start"]
    /\ eRec = eArg.recipe
    /\ eLog = NoLog

\* applyPriceBreakdownToRecipe(recipe, priceData)
ApplyPriceBreakdown ==
    /\ ePc = [call |-> "first", at |-> "start"]
    /\ eRec' = applyPriceBreakdownToRecipe(eRec, eArg.priceData)
    /\ ePc' = [call |-> "none", at |-> "applied"]
    /\ UNCHANGED <<eArg, eLog, coreVars, normVars, groceryVars, sortVars, registerVars,
                   filterVars>>

\* the call returns recipe; the next call is made on what it returned
CostReturn(call, log, recipe) ==
    /\ eLog' = [eLog EXCEPT ![call] = [log EXCEPT !.ret = recipe]]
    /\ ePc' = IF call = "first" THEN [call |-> "second", at |-> "start"]
              ELSE [call |-> "none", at |-> "done"]

\* ensureRecipeHasCostData runs to its first await: it returns at once for no
\* recipe and for one with cost data, and issues getRecipePriceBreakdown otherwise
EnsureStart ==
    /\ ePc.at = "start"
    /\ IF eRec = NoRecipe \/ recipeHasIngredientCost(eRec)
       THEN CostReturn(ePc.call, eLog[ePc.call], eRec)
       ELSE /\ eLog' = [eLog EXCEPT ![ePc.call].calls = @ + 1]
            /\ ePc' = [ePc EXCEPT !.at = "price"]
    /\ UNCHANGED <<eArg, eRec, coreVars, normVars, groceryVars, sortVars, registerVars,
                   filterVars>>

\* getRecipePriceBreakdown answers: data is merged into the recipe and
\* saveRecipeToDatabase issues its upsert; a failure and no data return the recipe
EnsurePriceResp ==
    /\ ePc.at = "price"
    /\ \E resp \in CostResponses(eArg.priceData) :
          LET enriched == applyPriceBreakdownToRecipe(eRec, resp.data)
              log == [eLog[ePc.call] EXCEPT !.resp = AnswerKind(resp)]
          IN  IF ensureRecipeHasCostDataApplies(resp)
              THEN /\ eRec' = enriched
                   /\ IF SaveSkipped(enriched)
                      THEN CostReturn(ePc.call, log, enriched)
                      ELSE /\ eLog' = [eLog EXCEPT ![ePc.call] = [log EXCEPT !.writes = @ + 1]]
                           /\ ePc' = [ePc EXCEPT !.at = "save"]
              ELSE /\ eRec' = eRec
                   /\ CostReturn(ePc.call, log, eRec)
    /\ UNCHANGED <<eArg, coreVars, normVars, groceryVars, sortVars, registerVars, filterVars>>

\* upsertRecipe answers: the row is written, or the failure is logged
EnsureSaveResp ==
    /\ ePc.at = "save"
    /\ \E ok \in BOOLEAN :
          cache' = IF ok THEN upsertRecipe(cache, SavePayload(eRec)) ELSE cache
    /\ CostReturn(ePc.call, eLog[ePc.call], eRec)
    /\ UNCHANGED <<eArg, eRec, op, pc, ids, map, fetch, enrich, out, stat, req, normVars,
                   groceryVars, sortVars, registerVars, filterVars>>

CostNext ==
    \/ ApplyPriceBreakdown
    \/ EnsureStart
    \/ EnsurePriceResp
    \/ EnsureSaveResp

SpecCost == CostInit /\ [][CostNext]_vars

\* C21: after a call of ensureRecipeHasCostData whose price breakdown was
\* fetched with success, a second call on the returned recipe issues no
\* getRecipePriceBreakdown, writes nothing and returns the recipe unchanged
C21_EnsureCostDataIdempotent ==
    ePc.at = "done" /\ eLog.first.resp = "data" =>
        /\ eLog.second.calls = 0
        /\ eLog.second.writes = 0
        /\ eLog.second.ret = eLog.first.ret

\* the breakdown has a numerically priced entry under key
PricedUnder(priceData, key) ==
    /\ key # <<>>
    /\ priceData.ingredients.t = "array"
    /\ \E j \in 1..Len(priceData.ingredients.items) :
          /\ KeyOf(priceData.ingredients.items[j].name) = key
          /\ ToNumber(priceData.ingredients.items[j].price).t = "number"

\* C30: applyPriceBreakdownToRecipe attaches a numeric estimatedCost to every
\* ingredient whose lowercased-trimmed name or, when the name finds nothing,
\* lowercased-trimmed original has a numerically priced entry in the
\* breakdown; every other ingredient keeps its estimatedCost; and the
\* breakdown is attached as priceBreakdown
C30_CostAttachedByNameOrOriginal ==
    ePc.at = "applied" /\ eArg.recipe # NoRecipe =>
        /\ eRec.priceBreakdown = eArg.priceData
        /\ eArg.recipe.extendedIngredients.t = "array" =>
              /\ eRec.extendedIngredients.t = "array"
              /\ Len(eRec.extendedIngredients.items) = Len(eArg.recipe.extendedIngredients.items)
              /\ \A i \in 1..Len(eArg.recipe.extendedIngredients.items) :
                    LET before == eArg.recipe.extendedIngredients.items[i]
                        after == eRec.extendedIngredients.items[i]
                    IN  IF \/ PricedUnder(eArg.priceData, KeyOf(before.name))
                           \/ PricedUnder(eArg.priceData, KeyOf(before.original))
                        THEN after.estimatedCost.t = "number"
                        ELSE after.estimatedCost = before.estimatedCost

=============================================================================
